---- MODULE Spec2Model ----
(***************************************************************************)
(* A model of source-bruh's incremental ingestion (functions/ingest.py)    *)
(* and of its stores (functions/db.py, src/db.py).                         *)
(*                                                                         *)
(* Conventions.  Python's None / "" / missing key is the value 0 for ids,  *)
(* URLs, file names and raw creation times, NoTs for an absent datetime    *)
(* and "" for an absent title.  A datetime is the integer number of ticks  *)
(* since the epoch, so the epoch is 0.  The bytes served at baseUrl u are  *)
(* the integer u.                                                          *)
(***************************************************************************)
EXTENDS Integers, Sequences, FiniteSets, TLC

\* ------------------------------------------------------------- bounds
MaxItems == 3       \* longest album of the media source
MaxTs == 2          \* latest creation time an item reports
MaxRuns == 2        \* invocations of ingest_once in one behaviour

\* the value of an Optional[datetime] that is None
NoTs == -1

\* ---------------------------------------------------- the media source
\* An item as mediaItems.search lists it: the image of media id k, served at
\* baseUrl k, with creation time t (0: the item reports none).
WellFormed(k, t) ==
    [id |-> k, mimeType |-> "image/jpeg", baseUrl |-> k, creationTime |-> t, filename |-> 0]

RECURSIVE ItemLists(_)
\* the item lists of length n: position k holds media item k, of any creation time
ItemLists(n) ==
    IF n = 0 THEN {<<>>}
    ELSE {Append(s, WellFormed(n, t)) : s \in ItemLists(n - 1), t \in 0..MaxTs}

\* the first album of the source: up to MaxItems images
FirstAlbums ==
    {[id |-> 1, title |-> "A", items |-> s] : s \in UNION {ItemLists(n) : n \in 0..MaxItems}}

\* the items ingest_once filters out: a video, an item without an id, an item
\* without a baseUrl
Video == [WellFormed(MaxItems + 2, 1) EXCEPT !.mimeType = "video/mp4"]
NoIdItem == [WellFormed(MaxItems + 2, 1) EXCEPT !.id = 0]
NoUrlItem == [WellFormed(MaxItems + 2, 1) EXCEPT !.baseUrl = 0]

\* The second album, of the same title as the first, of another title or of
\* none: the filtered items, media item 1 (shared with the first album) and an
\* image of its own.
SecondAlbums ==
    {[id |-> 2, title |-> t,
      items |-> <<Video, NoIdItem, NoUrlItem, WellFormed(1, 1), WellFormed(MaxItems + 1, 1)>>]
        : t \in {"A", "B", ""}}

\* an album entry without an id
NoIdAlbum == [id |-> 0, title |-> "B", items |-> <<WellFormed(MaxItems + 1, 1)>>]

\* The resolved album list: the first album, an entry without an id, the
\* first album resolved a second time (by its title), the second album.
AlbumEntryLists ==
    {<<a, NoIdAlbum, a, b>> : a \in FirstAlbums, b \in SecondAlbums}

\* the tenant ingest_once runs for, and a tenant that ingested before
RunTenants == {"u1"}
Tenants == {"u1", "u2"}

VARIABLES
    album_entries,    \* ingest_once: the resolved (album, path) list, as the source gives it
    saved,            \* StubFirestoreDB.saved: the records of the store
    disk,             \* the files under images_dir and thumbs_dir
    download_calls,   \* StubPhotosClient.download_calls, per baseUrl
    pc,               \* where the running ingest_once is, "idle" when none runs
    resolved_user_id, \* ingest_once: the tenant of the run
    album_idx,        \* ingest_once: entries of album_entries already taken
    seen_albums,      \* ingest_once: seen_albums
    last_timestamp,   \* ingest_once: last_timestamp
    item_idx,         \* ingest_once: items of the current album already taken
    image_bytes,      \* ingest_once: image_bytes of the current item
    description,      \* ingest_once: description of the current item
    embedding,        \* ingest_once: embedding of the current item
    upserts,          \* upsert_media_item calls of the running ingest_once
    run_log,          \* the finished runs: who ran, how the run ended, its upserts
    store_backend,    \* the store of the deployment: FirestoreDB in memory, or the SQLite Database
    _local_images,    \* FirestoreDB._local_images: a dict, as its (key, data) pairs in insertion order
    images,           \* Database: the rows of table images, row i of rowid i
    vectors,          \* Database: the rows of table vectors, in insertion order
    calls,            \* write calls made on the store
    last_call,        \* the last write call on the store, and what it returned
    prev_call,        \* the write call before it
    last_search,      \* the search_vectors call made since the last write, and what it returned
    last_response,    \* the HTTP request answered since the last write, and the response
    environ,          \* os.environ[cfg.llm.api_key_env] of the server process, "" when unset
    gemini_client,    \* create_app: gemini_client, "None" until a client is constructed
    genai_key,        \* the api_key of the last genai.configure of the process, "" before
    _local_users,     \* FirestoreDB._local_users: per uid, the settings and the user info
    cfg,              \* create_app: cfg["google_photos"], the album keys of it
    config_file,      \* the file at cfg_path: whether it exists, and its google_photos keys
    album_pages,      \* the source: the pages albums().list answers with
    media_pages,      \* the source: the pages mediaItems().search answers with for the album
    service,          \* GooglePhotosClient.service: 0 for None, else the build that made it
    build_calls,      \* _build_service invocations on the client
    gen_pc,           \* the generator of iter_media_items_in_album: where its frame is
    next_page_token,  \* the generator: next_page_token, 0 for None
    result,           \* the generator: result, the page it iterates
    item_pos,         \* the generator: items of result already yielded
    yielded,          \* what the consumer of the generator received
    requests,         \* the mediaItems().search requests of the generator
    code_verifier,    \* GooglePhotosClient.code_verifier, 0 for None
    pkce_pairs,       \* the pairs _generate_pkce_pair has made: the verifier of pair k is k
    auth_urls,        \* the code challenges of the authorization URLs handed out
    fetch_token       \* the last flow.fetch_token call: the code and the code_verifier of it

ingest_vars == <<album_entries, saved, disk, download_calls, pc, resolved_user_id, album_idx,
                 seen_albums, last_timestamp, item_idx, image_bytes, description, embedding,
                 upserts, run_log>>

store_vars == <<store_backend, _local_images, images, vectors, calls, last_call, prev_call,
                last_search, last_response>>

server_vars == <<environ, gemini_client, genai_key, _local_users, cfg, config_file>>

oauth_vars == <<code_verifier, pkce_pairs, auth_urls, fetch_token>>

client_vars == <<album_pages, media_pages, service, build_calls, gen_pc, next_page_token,
                 result, item_pos, yielded, requests, oauth_vars>>

vars == <<ingest_vars, store_vars, server_vars, client_vars>>

\* ------------------------------------------------------ pure functions
\* ingest._parse_creation_time: None for a missing or unparseable value
_parse_creation_time(value) == IF value = 0 THEN NoTs ELSE value

\* ingest_once: timestamp_dt, the epoch when the creation time does not parse
timestamp_dt(item) ==
    IF _parse_creation_time(item.creationTime) = NoTs THEN 0
    ELSE _parse_creation_time(item.creationTime)

\* ingest_once: filename = item.get("filename") or f"{media_id}.jpg"
filename(item) ==
    IF item.filename # 0 THEN [given |-> item.filename, media |-> 0]
    ELSE [given |-> 0, media |-> item.id]

\* photos_client.download_image_bytes: the bytes served at base_url
image_at(base_url) == [jpeg |-> base_url, thumb |-> FALSE]

\* no bytes yet
NoBytes == [jpeg |-> 0, thumb |-> FALSE]

\* ingest.create_thumbnail: a re-encoding of the image, never the image itself
create_thumbnail(bytes) == [bytes EXCEPT !.thumb = TRUE]

\* hashlib.sha256(image_bytes).hexdigest()
sha256(bytes) == [sha256_of |-> bytes]

\* ingest_once: the payload of the upsert (lines 196-215)
image_data(album, item, bytes, text, vector) ==
    [album_title |-> album.title,
     file_path |-> [dir |-> "images", name |-> filename(item)],
     thumb_path |-> [dir |-> "thumbs", name |-> filename(item)],
     timestamp |-> timestamp_dt(item),
     sha256 |-> sha256(bytes),
     description |-> text,
     embedding |-> vector,
     mime_type |-> item.mimeType,
     image_bytes |-> bytes,
     thumbnail_bytes |-> create_thumbnail(bytes)]

\* ------------------------------------------------- the store (the ledger)
\* StubFirestoreDB.has_media_item
has_media_item(user_id, media_id) ==
    \E r \in saved : r.user_id = user_id /\ r.media_id = media_id

\* StubFirestoreDB.upsert_media_item: saved[user_id][media_id] = image_data
upsert_media_item(user_id, media_id, payload) ==
    {r \in saved : ~(r.user_id = user_id /\ r.media_id = media_id)}
    \cup {[user_id |-> user_id, media_id |-> media_id, data |-> payload]}

Max(S) == CHOOSE x \in S : \A y \in S : y <= x

\* get_latest_media_timestamp keeping the earliest timestamp (best is replaced
\* when ts < best)
get_earliest_media_timestamp(user_id, album_title) ==
    LET ts == {r.data.timestamp : r \in
                 {q \in saved : /\ q.user_id = user_id
                                /\ (album_title = "" \/ q.data.album_title = album_title)}}
    IN IF ts = {} THEN NoTs ELSE CHOOSE x \in ts : \A y \in ts : x <= y

\* StubFirestoreDB.get_latest_media_timestamp
get_latest_media_timestamp(user_id, album_title) ==
    LET ts == {r.data.timestamp : r \in
                 {q \in saved : /\ q.user_id = user_id
                                /\ (album_title = "" \/ q.data.album_title = album_title)}}
    IN IF ts = {} THEN NoTs ELSE Max(ts)

\* open(path, "wb").write(data): the file is created or replaced
write_file(files, dir, name, data) ==
    {f \in files : ~(f.dir = dir /\ f.name = name)}
    \cup {[dir |-> dir, name |-> name, data |-> data]}

\* ------------------------------------------------------- ingest_once
\* hasattr(db, name) for has_media_item, get_latest_media_timestamp and
\* upsert_media_item: StubFirestoreDB defines the three, FirestoreDB none
hasattr_db == store_backend = "ledger"

Album == album_entries[album_idx + 1]
Item == Album.items[item_idx + 1]

\* the run ends: normally, by an exception leaving ingest_once, or by a crash;
\* the locals of ingest_once go with its frame
EndRun(outcome) ==
    /\ pc' = "idle"
    /\ run_log' = Append(run_log, [user |-> resolved_user_id, outcome |-> outcome,
                                   upserts |-> upserts])
    /\ upserts' = 0
    /\ album_idx' = 0
    /\ seen_albums' = {}
    /\ last_timestamp' = NoTs
    /\ item_idx' = 0
    /\ image_bytes' = NoBytes
    /\ description' = ""
    /\ embedding' = <<>>
    /\ UNCHANGED <<store_vars, server_vars, client_vars, album_entries, resolved_user_id>>

\* ingest_once is called for a tenant (lines 77-136)
IngestStart(user_id) ==
    /\ pc = "idle"
    /\ Len(run_log) < MaxRuns
    /\ pc' = "album"
    /\ resolved_user_id' = user_id
    /\ album_idx' = 0
    /\ seen_albums' = {}
    /\ last_timestamp' = NoTs
    /\ item_idx' = 0
    /\ image_bytes' = NoBytes
    /\ description' = ""
    /\ embedding' = <<>>
    /\ upserts' = 0
    /\ UNCHANGED <<store_vars, server_vars, client_vars, album_entries, saved, disk,
                   download_calls, run_log>>

\* an album entry is passed over only when it has no id
SkipsAlbumNoDedup(album) == album.id = 0

\* the test of the album loop (lines 139-141): TRUE when the entry is skipped
SkipsAlbum(album) == album.id = 0 \/ album.id \in seen_albums

\* the album loop takes the next entry (lines 138-152), or the run returns
NextAlbum ==
    /\ pc = "album"
    /\ IF album_idx = Len(album_entries)
       THEN /\ EndRun("completed")
            /\ UNCHANGED <<saved, disk, download_calls>>
       ELSE /\ IF SkipsAlbum(Album)
               THEN /\ album_idx' = album_idx + 1
                    /\ UNCHANGED <<pc, seen_albums, last_timestamp, item_idx>>
               ELSE /\ seen_albums' = seen_albums \cup {Album.id}
                    /\ last_timestamp' = IF hasattr_db
                                         THEN get_latest_media_timestamp(resolved_user_id,
                                                                         Album.title)
                                         ELSE NoTs
                    /\ item_idx' = 0
                    /\ pc' = "item"
                    /\ UNCHANGED album_idx
            /\ UNCHANGED <<store_vars, server_vars, client_vars, album_entries, saved, disk,
                           download_calls, resolved_user_id, image_bytes, description,
                           embedding, upserts, run_log>>

\* the filters without the lookup in the store
SkipsItemNoDedup(item) ==
    \/ item.mimeType # "image/jpeg"
    \/ item.id = 0
    \/ item.baseUrl = 0
    \/ (last_timestamp # NoTs /\ timestamp_dt(item) <= last_timestamp)

\* the filters with the stale test strict (timestamp_dt < last_timestamp)
SkipsItemStrict(item) ==
    \/ item.mimeType # "image/jpeg"
    \/ item.id = 0
    \/ has_media_item(resolved_user_id, item.id)
    \/ item.baseUrl = 0
    \/ (last_timestamp # NoTs /\ timestamp_dt(item) < last_timestamp)

\* the filters of the item loop (lines 155-176): TRUE when the item is skipped
SkipsItem(item) ==
    \/ item.mimeType # "image/jpeg"
    \/ item.id = 0
    \/ (hasattr_db /\ has_media_item(resolved_user_id, item.id))
    \/ item.baseUrl = 0
    \/ (last_timestamp # NoTs /\ timestamp_dt(item) <= last_timestamp)

\* the item loop takes the next item (lines 154-178), or the album is done
NextItem ==
    /\ pc = "item"
    /\ IF item_idx = Len(Album.items)
       THEN /\ pc' = "album"
            /\ album_idx' = album_idx + 1
            /\ UNCHANGED item_idx
       ELSE /\ IF SkipsItem(Item)
               THEN /\ item_idx' = item_idx + 1
                    /\ UNCHANGED pc
               ELSE /\ pc' = "download"
                    /\ UNCHANGED item_idx
            /\ UNCHANGED album_idx
    /\ UNCHANGED <<store_vars, server_vars, client_vars, album_entries, saved, disk,
                   download_calls, resolved_user_id, seen_albums, last_timestamp,
                   image_bytes, description, embedding, upserts, run_log>>

\* download_image_bytes returns, the image and its thumbnail are written (lines 180-188)
DownloadImage ==
    /\ pc = "download"
    /\ download_calls' = [download_calls EXCEPT ![Item.baseUrl] = @ + 1]
    /\ image_bytes' = image_at(Item.baseUrl)
    /\ disk' = write_file(write_file(disk, "images", filename(Item), image_at(Item.baseUrl)),
                          "thumbs", filename(Item), create_thumbnail(image_at(Item.baseUrl)))
    /\ pc' = "describe"
    /\ UNCHANGED <<store_vars, server_vars, client_vars, album_entries, saved,
                   resolved_user_id, album_idx, seen_albums, last_timestamp, item_idx,
                   description, embedding, upserts, run_log>>

\* download_image_bytes raises (raise_for_status, a timeout): nothing in
\* ingest_once catches it, the exception leaves ingest_once (line 180)
DownloadFails ==
    /\ pc = "download"
    /\ download_calls' = [download_calls EXCEPT ![Item.baseUrl] = @ + 1]
    /\ EndRun("download_error")
    /\ UNCHANGED <<saved, disk>>

\* GeminiClient.describe_image, a function of the bytes: the oracle has no
\* words for the image served at the last URL of the source
describe_image(bytes) == IF bytes.jpeg = MaxItems + 1 THEN "" ELSE "a photo"

\* GeminiClient.embed_text: the vector of a description
embed_text(text) == <<1, 0>>

\* describe_image returns text and embed_text is called whatever the text is
DescribeImageAlwaysEmbeds ==
    /\ pc = "describe"
    /\ description' = describe_image(image_bytes)
    /\ pc' = "embed"
    /\ UNCHANGED <<store_vars, server_vars, client_vars, album_entries, saved, disk,
                   download_calls, resolved_user_id, album_idx, seen_albums, last_timestamp,
                   item_idx, image_bytes, embedding, upserts, run_log>>

\* describe_image returns text; embed_text is called only for a non-empty
\* description (lines 190-191)
DescribeImage ==
    /\ pc = "describe"
    /\ description' = describe_image(image_bytes)
    /\ IF describe_image(image_bytes) # ""
       THEN /\ pc' = "embed"
            /\ UNCHANGED embedding
       ELSE /\ pc' = "upsert"
            /\ embedding' = <<>>
    /\ UNCHANGED <<store_vars, server_vars, client_vars, album_entries, saved, disk,
                   download_calls, resolved_user_id, album_idx, seen_albums, last_timestamp,
                   item_idx, image_bytes, upserts, run_log>>

\* embed_text returns the vector of the description (line 191)
EmbedText ==
    /\ pc = "embed"
    /\ embedding' = embed_text(description)
    /\ pc' = "upsert"
    /\ UNCHANGED <<store_vars, server_vars, client_vars, album_entries, saved, disk,
                   download_calls, resolved_user_id, album_idx, seen_albums, last_timestamp,
                   item_idx, image_bytes, description, upserts, run_log>>

\* describe_image or embed_text raises: the exception leaves ingest_once
OracleFails ==
    /\ pc \in {"describe", "embed"}
    /\ EndRun("oracle_error")
    /\ UNCHANGED <<saved, disk, download_calls>>

\* ingest_once: the watermark after an upsert (lines 218-219)
AdvanceTimestamp(last, ts) ==
    IF last = NoTs \/ ts > last THEN ts ELSE last

\* the record is upserted and the watermark advanced (lines 193-219)
UpsertItem ==
    /\ pc = "upsert"
    /\ hasattr_db
    /\ saved' = upsert_media_item(resolved_user_id, Item.id,
                                  image_data(Album, Item, image_bytes, description, embedding))
    /\ last_timestamp' = AdvanceTimestamp(last_timestamp, timestamp_dt(Item))
    /\ item_idx' = item_idx + 1
    /\ pc' = "item"
    /\ upserts' = upserts + 1
    /\ UNCHANGED <<store_vars, server_vars, client_vars, album_entries, disk,
                   download_calls, resolved_user_id, album_idx, seen_albums, image_bytes,
                   description, embedding, run_log>>

\* db.upsert_media_item of a store without that method: the AttributeError
\* leaves ingest_once (line 193)
UpsertRaises ==
    /\ pc = "upsert"
    /\ ~hasattr_db
    /\ EndRun("attribute_error")
    /\ UNCHANGED <<saved, disk, download_calls>>

\* the process is killed while ingest_once runs
Crash ==
    /\ pc # "idle"
    /\ EndRun("crashed")
    /\ UNCHANGED <<saved, disk, download_calls>>

\* What the other tenant's earlier ingestion left: its record of media item 1,
\* the latest of its album "A", and the two files of that item.
ForeignItem == WellFormed(1, MaxTs)

ForeignRecord ==
    [user_id |-> "u2", media_id |-> ForeignItem.id,
     data |-> image_data([title |-> "A"], ForeignItem, image_at(ForeignItem.baseUrl),
                         "a photo", <<1, 0>>)]

ForeignFiles ==
    write_file(write_file({}, "images", filename(ForeignItem), image_at(ForeignItem.baseUrl)),
               "thumbs", filename(ForeignItem), create_thumbnail(image_at(ForeignItem.baseUrl)))

\* no call was made yet
NoCall == [op |-> "none"]

\* a store of the given kind that nothing was written to (functions/db.py
\* lines 27-42, src/db.py lines 11-56)
EmptyStore(kind) ==
    /\ store_backend = kind
    /\ _local_images = <<>>
    /\ images = <<>>
    /\ vectors = <<>>
    /\ calls = 0
    /\ last_call = NoCall
    /\ prev_call = NoCall
    /\ last_search = NoCall
    /\ last_response = NoCall

\* a uid that FirestoreDB._local_users has no entry for: the getters answer
\* {} for it (functions/db.py lines 162, 228); a key a dict does not hold is
\* "", and "missing" for the flag
NoSettings ==
    [album_url |-> "", album_title |-> "", gemini_api_key |-> "", gemini_key_set |-> "missing"]

NoUser == [settings |-> NoSettings, user_info |-> [email |-> ""]]

\* google_photos of a configuration that names no album
NoAlbumSource == [album_url |-> "", album_paths |-> <<>>, albums |-> <<>>]

\* create_app before any request: no client is constructed yet (functions
\* server.py line 110, backend server.py line 40), the key variable unset
NoServer ==
    /\ environ = ""
    /\ gemini_client = "None"
    /\ genai_key = ""
    /\ _local_users = [uid \in Tenants |-> NoUser]
    /\ cfg = NoAlbumSource
    /\ config_file = [exists |-> FALSE, google_photos |-> NoAlbumSource]

\* no GooglePhotosClient: the stub client of the runs answers from
\* album_entries
\* a client that has started no authorization (photos_client.py line 62)
NoOAuth ==
    /\ code_verifier = 0
    /\ pkce_pairs = 0
    /\ auth_urls = {}
    /\ fetch_token = NoCall

NoClient ==
    /\ album_pages = <<>>
    /\ media_pages = <<>>
    /\ service = 0
    /\ build_calls = 0
    /\ gen_pc = "none"
    /\ next_page_token = 0
    /\ result = <<>>
    /\ item_pos = 0
    /\ yielded = <<>>
    /\ requests = <<>>
    /\ NoOAuth

Init ==
    /\ EmptyStore("ledger")
    /\ NoServer
    /\ NoClient
    /\ album_entries \in AlbumEntryLists
    /\ saved = {ForeignRecord}
    /\ disk = ForeignFiles
    /\ download_calls = [u \in 0..(MaxItems + 2) |-> 0]
    /\ pc = "idle"
    /\ resolved_user_id = "u1"
    /\ album_idx = 0
    /\ seen_albums = {}
    /\ last_timestamp = NoTs
    /\ item_idx = 0
    /\ image_bytes = NoBytes
    /\ description = ""
    /\ embedding = <<>>
    /\ upserts = 0
    /\ run_log = <<>>

Next ==
    \/ \E u \in RunTenants : IngestStart(u)
    \/ NextAlbum
    \/ NextItem
    \/ DownloadImage
    \/ DownloadFails
    \/ DescribeImage
    \/ EmbedText
    \/ OracleFails
    \/ UpsertItem
    \/ Crash

Spec == Init /\ [][Next]_vars

\* ------------------------------------------- FirestoreDB, in memory
\* An id is a positive integer k standing for the string str(k); 0 is None or
\* a missing key.  A vector is a sequence of integers; None and [] are <<>>.
\* An owner is a tenant's name, "" when the record has none (None or no key).
\* Arithmetic is exact: a distance is the cosine it is computed from, kept as
\* the fraction sign(dot) * dot^2 / (norm1^2 * norm2^2).

MaxCalls == 3       \* write calls on a store in one behaviour
MaxK == 4           \* largest top_k of a search

Min(a, b) == IF a <= b THEN a ELSE b

RECURSIVE zip_dot(_, _, _)
\* sum(a * b for a, b in zip(vec1, vec2)), over the first n pairs
zip_dot(vec1, vec2, n) ==
    IF n = 0 THEN 0 ELSE zip_dot(vec1, vec2, n - 1) + vec1[n] * vec2[n]

\* math.inf
Inf == [inf |-> TRUE, num |-> 0, den |-> 1]

\* the cosine of any two vectors that are not empty, whatever their norms
_cosine_of_any(vec1, vec2) ==
    IF vec1 = <<>> \/ vec2 = <<>> THEN Inf
    ELSE LET dot == zip_dot(vec1, vec2, Min(Len(vec1), Len(vec2)))
         IN [inf |-> FALSE,
             num |-> IF dot < 0 THEN -(dot * dot) ELSE dot * dot,
             den |-> zip_dot(vec1, vec1, Len(vec1)) * zip_dot(vec2, vec2, Len(vec2))]

\* FirestoreDB._cosine_distance (lines 258-269): 1 - cosine, as the square of
\* the cosine with the cosine's sign
_cosine_distance(vec1, vec2) ==
    IF vec1 = <<>> \/ vec2 = <<>> THEN Inf
    ELSE LET dot == zip_dot(vec1, vec2, Min(Len(vec1), Len(vec2)))
             norm1 == zip_dot(vec1, vec1, Len(vec1))
             norm2 == zip_dot(vec2, vec2, Len(vec2))
         IN IF norm1 = 0 \/ norm2 = 0 THEN Inf
            ELSE [inf |-> FALSE,
                  num |-> IF dot < 0 THEN -(dot * dot) ELSE dot * dot,
                  den |-> norm1 * norm2]

\* d1 < d2 for two finite distances: the cosine of d1 is the larger
Closer(d1, d2) == d1.num * d2.den > d2.num * d1.den

\* the key add_image_data files the record under (lines 58-59, 71-72)
image_id_of(payload, docs) ==
    IF payload.image_id # 0 THEN payload.image_id
    ELSE IF payload.image_rowid # 0 THEN payload.image_rowid
    ELSE Len(docs) + 1

\* the data add_image_data stores (lines 50-56, 58, 73): the payload without
\* its image_id, with an owner and an image_rowid when it names none
document(payload, user_id, image_id) ==
    [key \in DOMAIN payload \ {"image_id"} |->
        CASE key = "user_id" -> IF payload.user_id # "" THEN payload.user_id ELSE user_id
          [] key = "image_rowid" ->
                IF payload.image_rowid # 0 THEN payload.image_rowid ELSE image_id
          [] OTHER -> payload[key]]

\* a dict that keeps every assignment as an entry of its own
dict_append(docs, key, data) == Append(docs, [key |-> key, data |-> data])

\* self._local_images[image_id] = data (line 74): a new key goes last, an
\* existing key keeps its place
dict_set(docs, key, data) ==
    IF \E i \in DOMAIN docs : docs[i].key = key
    THEN [i \in DOMAIN docs |-> IF docs[i].key = key THEN [key |-> key, data |-> data]
                                                    ELSE docs[i]]
    ELSE Append(docs, [key |-> key, data |-> data])

\* FirestoreDB.add_image_data (lines 47-76)
AddImageData(payload, user_id) ==
    /\ store_backend = "memory"
    /\ calls < MaxCalls
    /\ LET image_id == image_id_of(payload, _local_images)
       IN /\ _local_images' = dict_set(_local_images, image_id,
                                       document(payload, user_id, image_id))
          /\ last_call' = [op |-> "add_image_data", image_data |-> payload,
                           user_id |-> user_id, returned |-> image_id]
    /\ prev_call' = last_call
    /\ calls' = calls + 1
    /\ last_search' = NoCall
    /\ last_response' = NoCall
    /\ UNCHANGED <<store_backend, images, vectors, ingest_vars, server_vars, client_vars>>

\* every document, whoever asks
_iter_all_documents(user_id) == _local_images

\* FirestoreDB._iter_image_documents (lines 241-245): with a user_id, the
\* documents of that owner and those of no owner
_iter_image_documents(user_id) ==
    SelectSeq(_local_images,
              LAMBDA doc : ~(user_id # "" /\ doc.data.user_id \notin {"", user_id}))

\* search_vectors: the record of a document at a distance (lines 95-106)
record(doc, distance) ==
    [image_rowid |-> IF doc.data.image_rowid # 0 THEN doc.data.image_rowid ELSE doc.key,
     distance |-> distance,
     description |-> doc.data.description,
     album_title |-> doc.data.album_title,
     user_id |-> doc.data.user_id]

RECURSIVE results_of(_, _)
\* search_vectors: the loop over the documents (lines 88-107)
results_of(docs, query_vector) ==
    IF docs = <<>> THEN <<>>
    ELSE LET doc == docs[Len(docs)]
             before == results_of(SubSeq(docs, 1, Len(docs) - 1), query_vector)
             distance == _cosine_distance(query_vector, doc.data.embedding)
         IN IF doc.data.embedding = <<>> \/ distance.inf
            THEN before
            ELSE Append(before, record(doc, distance))

\* the results as the loop left them
unsorted(results) == results

RECURSIVE sort_ties_reversed(_)
\* a sort by distance that is not stable: a record goes before the records
\* as far as it
sort_ties_reversed(results) ==
    IF results = <<>> THEN <<>>
    ELSE LET last == results[Len(results)]
             sorted == sort_ties_reversed(SubSeq(results, 1, Len(results) - 1))
             k == Cardinality({i \in DOMAIN sorted :
                                  Closer(sorted[i].distance, last.distance)})
         IN SubSeq(sorted, 1, k) \o <<last>> \o SubSeq(sorted, k + 1, Len(sorted))

RECURSIVE sort_by_distance(_)
\* results.sort(key=distance) (line 109): a stable sort, a record goes behind
\* the records that are not farther than it
sort_by_distance(results) ==
    IF results = <<>> THEN <<>>
    ELSE LET last == results[Len(results)]
             sorted == sort_by_distance(SubSeq(results, 1, Len(results) - 1))
             k == Cardinality({i \in DOMAIN sorted :
                                  ~Closer(last.distance, sorted[i].distance)})
         IN SubSeq(sorted, 1, k) \o <<last>> \o SubSeq(sorted, k + 1, Len(sorted))

\* results[:top_k] (line 110): a negative top_k counts from the end
slice(results, top_k) ==
    IF top_k >= 0 THEN SubSeq(results, 1, Min(top_k, Len(results)))
    ELSE SubSeq(results, 1, Max({0, Len(results) + top_k}))

\* FirestoreDB.search_vectors (lines 83-110)
search_vectors(query_vector, top_k, user_id) ==
    slice(sort_by_distance(results_of(_iter_image_documents(user_id), query_vector)), top_k)

\* FirestoreDB.search_vectors is called (lines 83-110)
SearchVectors(query_vector, top_k, user_id) ==
    /\ store_backend = "memory"
    /\ last_search' = [op |-> "search_vectors", query_vector |-> query_vector,
                       top_k |-> top_k, user_id |-> user_id,
                       returned |-> search_vectors(query_vector, top_k, user_id)]
    /\ UNCHANGED <<store_backend, _local_images, images, vectors, calls, last_call, prev_call,
                   last_response, ingest_vars, server_vars, client_vars>>

\* ------------------------------------------------- Database (SQLite)
\* A row of table images is its google_media_id (0: NULL), its file_path and
\* its description; the other columns are written as the description is.

\* INSERT ... ON CONFLICT(google_media_id) DO UPDATE (lines 79-106): NULL
\* conflicts with nothing, a conflicting row is updated in place
insert_or_update(rows, payload) ==
    IF payload.google_media_id # 0
       /\ \E i \in DOMAIN rows : rows[i].google_media_id = payload.google_media_id
    THEN [i \in DOMAIN rows |-> IF rows[i].google_media_id = payload.google_media_id
                                THEN payload ELSE rows[i]]
    ELSE Append(rows, payload)

\* the rowid upsert_image returns (lines 109-121): of the row of the media
\* id, or without one of the first row of the file path
rowid_of(rows, payload) ==
    IF payload.google_media_id # 0
    THEN CHOOSE i \in DOMAIN rows : rows[i].google_media_id = payload.google_media_id
    ELSE CHOOSE i \in DOMAIN rows :
            /\ rows[i].file_path = payload.file_path
            /\ \A j \in DOMAIN rows : rows[j].file_path = payload.file_path => i <= j

\* Database.upsert_image (lines 63-121)
UpsertImage(payload) ==
    /\ store_backend = "sqlite"
    /\ calls < MaxCalls
    /\ images' = insert_or_update(images, payload)
    /\ last_call' = [op |-> "upsert_image", image_data |-> payload,
                     returned |-> rowid_of(insert_or_update(images, payload), payload)]
    /\ prev_call' = last_call
    /\ calls' = calls + 1
    /\ last_search' = NoCall
    /\ last_response' = NoCall
    /\ UNCHANGED <<store_backend, _local_images, vectors, ingest_vars, server_vars, client_vars>>

\* DELETE FROM vectors WHERE image_rowid = ?, then INSERT (lines 125-130):
\* a row of table vectors is its image_rowid and its emb
delete_and_insert(rows, image_rowid, emb) ==
    Append(SelectSeq(rows, LAMBDA v : v.image_rowid # image_rowid),
           [image_rowid |-> image_rowid, embedding |-> emb])

\* Database.insert_or_replace_vector (lines 123-131): the DELETE and the
\* INSERT are one transaction, committed at line 131; the commit of
\* upsert_image (line 109) is an earlier one
InsertOrReplaceVector(image_rowid, emb) ==
    /\ store_backend = "sqlite"
    /\ vectors' = delete_and_insert(vectors, image_rowid, emb)
    /\ last_call' = [op |-> "insert_or_replace_vector", image_rowid |-> image_rowid,
                     embedding |-> emb]
    /\ prev_call' = last_call
    /\ last_search' = NoCall
    /\ last_response' = NoCall
    /\ UNCHANGED <<store_backend, _local_images, images, calls, ingest_vars, server_vars,
                   client_vars>>

\* v.distance of sqlite-vec (line 149): the L2 distance of a stored vector to
\* the query, as its square (ORDER BY sees the same order)
vec_distance(emb, query_embedding) ==
    LET S[i \in 0..Len(emb)] ==
            IF i = 0 THEN 0
            ELSE S[i - 1] + (emb[i] - query_embedding[i])
                             * (emb[i] - query_embedding[i])
    IN S[Len(emb)]

\* FROM vectors v JOIN images i ON i.rowid = v.image_rowid (lines 146-151):
\* the columns of the images row as they are now, the distance of the vectors
\* row as it is now
joined(v, query_embedding) ==
    [image_rowid |-> v.image_rowid,
     google_media_id |-> images[v.image_rowid].google_media_id,
     file_path |-> images[v.image_rowid].file_path,
     description |-> images[v.image_rowid].description,
     distance |-> vec_distance(v.embedding, query_embedding)]

\* ORDER BY v.distance (line 152): the orders of the rows of table vectors by
\* distance; rows of one distance come in any order
orders_by_distance(query_embedding) ==
    {o \in [DOMAIN vectors -> DOMAIN vectors] :
        /\ \A a, b \in DOMAIN vectors : a # b => o[a] # o[b]
        /\ \A a, b \in DOMAIN vectors :
              a < b => vec_distance(vectors[o[a]].embedding, query_embedding)
                        <= vec_distance(vectors[o[b]].embedding, query_embedding)}

\* Database.search (lines 140-156): a read of what is committed
DatabaseSearch(query_embedding, top_k) ==
    /\ store_backend = "sqlite"
    /\ \E o \in orders_by_distance(query_embedding) :
          last_search' = [op |-> "search", query_embedding |-> query_embedding,
                          top_k |-> top_k,
                          returned |-> slice([a \in DOMAIN vectors |->
                                                joined(vectors[o[a]], query_embedding)],
                                             top_k)]
    /\ UNCHANGED <<store_backend, _local_images, images, vectors, calls, last_call, prev_call,
                   last_response, ingest_vars, server_vars, client_vars>>

\* ------------------------------------------------ the stores, called
\* ingest_once does not run
NoIngest ==
    /\ album_entries = <<>>
    /\ saved = {}
    /\ disk = {}
    /\ download_calls = [u \in 0..(MaxItems + 2) |-> 0]
    /\ pc = "idle"
    /\ resolved_user_id = "u1"
    /\ album_idx = 0
    /\ seen_albums = {}
    /\ last_timestamp = NoTs
    /\ item_idx = 0
    /\ image_bytes = NoBytes
    /\ description = ""
    /\ embedding = <<>>
    /\ upserts = 0
    /\ run_log = <<>>

\* who calls the store: a tenant, or nobody (user_id None)
Callers == {""} \cup Tenants

\* what a written image is: its description and the vector of it
Contents == {<<"a cat", <<1, 0>>>>, <<"a dog", <<0, 1>>>>}

\* the (image_id, image_rowid) of a payload: neither, an image_id, an
\* image_rowid alone
PayloadIds == {<<0, 0>>, <<1, 0>>, <<0, 1>>}

\* the payloads of add_image_data that name no owner
StorePayloads ==
    {[image_id |-> k[1], image_rowid |-> k[2], user_id |-> "", embedding |-> c[2],
      description |-> c[1], album_title |-> "Trip"] : k \in PayloadIds, c \in Contents}

\* the payloads of image 1 that name tenant u2 as the owner
OwnedPayloads ==
    {[image_id |-> 1, image_rowid |-> 0, user_id |-> "u2", embedding |-> c[2],
      description |-> c[1], album_title |-> "Trip"] : c \in Contents}

\* the rows upsert_image is called with
Rows ==
    {[google_media_id |-> g, file_path |-> f, description |-> c[1]]
        : g \in 0..2, f \in {"p1", "p2"}, c \in Contents}

InitStore ==
    /\ NoIngest
    /\ \E kind \in {"memory", "sqlite"} : EmptyStore(kind)
    /\ NoServer
    /\ NoClient

NextStore ==
    \/ \E payload \in StorePayloads, user_id \in Callers : AddImageData(payload, user_id)
    \/ \E payload \in OwnedPayloads : AddImageData(payload, "u1")
    \/ \E user_id \in Callers : SearchVectors(<<1, 0>>, MaxCalls, user_id)
    \/ \E payload \in Rows : UpsertImage(payload)

\* the writes of the two stores, and the search of what was written
SpecStore == InitStore /\ [][NextStore]_vars

\* the payloads of add_image_data by the id they name: none, an image_id,
\* an image_rowid
IdPayloads ==
    {[image_id |-> k[1], image_rowid |-> k[2], user_id |-> "", embedding |-> c[2],
      description |-> c[1], album_title |-> "Trip"]
        : k \in {<<0, 0>>, <<2, 0>>, <<0, 2>>}, c \in Contents}

InitIds ==
    /\ NoIngest
    /\ EmptyStore("memory")
    /\ NoServer
    /\ NoClient

NextIds == \E payload \in IdPayloads : AddImageData(payload, "u1")

\* the in-memory FirestoreDB written with and without ids
SpecIds == InitIds /\ [][NextIds]_vars

\* the rows a caller writes with their vectors: a media id, a description
VectorRows ==
    {[google_media_id |-> g, file_path |-> "p1", description |-> c[1]]
        : g \in 1..2, c \in Contents}

InitVectors ==
    /\ NoIngest
    /\ EmptyStore("sqlite")
    /\ NoServer
    /\ NoClient

\* a caller writes a record as upsert_image, then insert_or_replace_vector of
\* the rowid returned and of the vector of the description; it may stop
\* between the two, and searches read at any point
NextVectors ==
    \/ \E payload \in VectorRows : UpsertImage(payload)
    \/ \E c \in Contents :
          /\ last_call.op = "upsert_image"
          /\ last_call.image_data.description = c[1]
          /\ InsertOrReplaceVector(last_call.returned, c[2])
    \/ \E c \in Contents, top_k \in 1..MaxK : DatabaseSearch(c[2], top_k)

\* the SQLite store written and searched
SpecVectors == InitVectors /\ [][NextVectors]_vars

\* the embeddings of a corpus: three directions, none, all-zero, one of
\* another length
Embeddings == {<<1, 0>>, <<0, 1>>, <<-1, 0>>, <<>>, <<0, 0>>, <<1>>}

\* the query vectors
Queries == {<<1, 0>>, <<1, 1>>, <<0, 0>>, <<>>}

\* the payloads of a corpus: no id given
CorpusPayloads ==
    {[image_id |-> 0, image_rowid |-> 0, user_id |-> "", embedding |-> e,
      description |-> "a photo", album_title |-> "Trip"] : e \in Embeddings}

InitSearch ==
    /\ NoIngest
    /\ EmptyStore("memory")
    /\ NoServer
    /\ NoClient

NextSearch ==
    \/ \E payload \in CorpusPayloads : AddImageData(payload, "u1")
    \/ \E query_vector \in Queries, top_k \in 0..MaxK :
          SearchVectors(query_vector, top_k, "u1")

\* a corpus is written to the in-memory FirestoreDB and searched
SpecSearch == InitSearch /\ [][NextSearch]_vars

\* ------------------------------------ the functions server: /image
\* A blob of a document is bytes, a str holding the base64 of bytes, or None.
MaxImages == 2      \* images written before the image route is asked

\* doc.get(key) of a key the document has not, or has as None
NoBlob == [kind |-> "none", bytes |-> NoBytes]
NoPath == [dir |-> "", name |-> [given |-> 0, media |-> 0]]

\* os.path.exists(path), and the bytes open(path, "rb").read() returns
exists(path, files) == \E f \in files : f.dir = path.dir /\ f.name = path.name
read(path, files) == (CHOOSE f \in files : f.dir = path.dir /\ f.name = path.name).data

\* base64.b64decode of a str blob
b64decode(blob) == blob.bytes

\* FirestoreDB._get_image_document (lines 247-256), in memory: the places of
\* the documents filed under str(image_id)
_get_image_document(image_id) ==
    {i \in DOMAIN _local_images : _local_images[i].key = image_id}

\* FirestoreDB.get_image_blob (lines 120-148): (blob, mime_type), NoBytes
\* and "" for None
get_image_blob(image_id, prefer_thumb) ==
    IF _get_image_document(image_id) = {} THEN [blob |-> NoBytes, mime_type |-> ""]
    ELSE LET doc == _local_images[CHOOSE i \in _get_image_document(image_id) : TRUE].data
             mime_type == IF doc.mime_type = "" THEN "image/jpeg" ELSE doc.mime_type
             blob == IF prefer_thumb THEN doc.thumb_bytes ELSE doc.image_bytes
             path == IF prefer_thumb THEN doc.thumb_path ELSE doc.file_path
         IN IF blob.kind = "bytes" THEN [blob |-> blob.bytes, mime_type |-> mime_type]
            ELSE IF blob.kind = "str" THEN [blob |-> b64decode(blob), mime_type |-> mime_type]
            ELSE IF path # NoPath /\ exists(path, disk)
                 THEN [blob |-> read(path, disk), mime_type |-> mime_type]
            ELSE [blob |-> NoBytes, mime_type |-> mime_type]

\* GET /image/{image_rowid}?thumb= (server.py lines 163-168)
GetImage(image_rowid, thumb) ==
    /\ store_backend = "memory"
    /\ LET got == get_image_blob(image_rowid, thumb = 1)
       IN last_response' =
             [op |-> "get_image", image_rowid |-> image_rowid, thumb |-> thumb,
              status |-> IF got.blob = NoBytes THEN 404 ELSE 200,
              content |-> got.blob,
              media_type |-> IF got.mime_type = "" THEN "image/jpeg" ELSE got.mime_type]
    /\ UNCHANGED <<store_backend, _local_images, images, vectors, calls, last_call, prev_call,
                   last_search, ingest_vars, server_vars, client_vars>>

\* the pictures written, and the mime type each is written with ("": none)
Pictures == {1, 2}
mime_of(picture) == IF picture = 1 THEN "image/png" ELSE ""

\* How a writer lays a picture down: the image as bytes, as a str or not at
\* all; the thumbnail under thumb_bytes (the key get_image_blob reads), under
\* thumbnail_bytes (the key ingest_once and /images/from-url write) or not at
\* all; the paths of files on this host, of files written on another host, or
\* no path.
Layouts ==
    {[image |-> "bytes", thumb_key |-> "thumb_bytes", files |-> "none"],
     [image |-> "bytes", thumb_key |-> "thumbnail_bytes", files |-> "here"],
     [image |-> "bytes", thumb_key |-> "thumbnail_bytes", files |-> "elsewhere"],
     [image |-> "none", thumb_key |-> "none", files |-> "here"],
     [image |-> "none", thumb_key |-> "none", files |-> "none"],
     [image |-> "str", thumb_key |-> "none", files |-> "none"]}

\* the path a layout gives a picture in a directory
path_of(layout, dir, picture) ==
    IF layout.files = "none" THEN NoPath
    ELSE [dir |-> dir,
          name |-> [given |-> 0,
                    media |-> IF layout.files = "here" THEN picture
                              ELSE picture + Cardinality(Pictures)]]

\* the payloads of add_image_data for the pictures
ImagePayloads ==
    {[image_id |-> k, image_rowid |-> 0, user_id |-> "", embedding |-> <<1, 0>>,
      description |-> "a photo", album_title |-> "Trip", mime_type |-> mime_of(c),
      image_bytes |-> IF l.image = "none" THEN NoBlob
                      ELSE [kind |-> l.image, bytes |-> image_at(c)],
      thumb_bytes |-> IF l.thumb_key = "thumb_bytes"
                      THEN [kind |-> "bytes", bytes |-> create_thumbnail(image_at(c))]
                      ELSE NoBlob,
      thumbnail_bytes |-> IF l.thumb_key = "thumbnail_bytes"
                          THEN [kind |-> "bytes", bytes |-> create_thumbnail(image_at(c))]
                          ELSE NoBlob,
      file_path |-> path_of(l, "images", c),
      thumb_path |-> path_of(l, "thumbs", c)] : k \in {0, 1}, c \in Pictures, l \in Layouts}

\* the files of this host: the image and the thumbnail of every picture
ImageFiles ==
    {[dir |-> "images", name |-> [given |-> 0, media |-> c], data |-> image_at(c)]
        : c \in Pictures}
    \cup {[dir |-> "thumbs", name |-> [given |-> 0, media |-> c],
           data |-> create_thumbnail(image_at(c))] : c \in Pictures}

InitImage ==
    /\ EmptyStore("memory")
    /\ NoServer
    /\ NoClient
    /\ album_entries = <<>>
    /\ saved = {}
    /\ disk = ImageFiles
    /\ download_calls = [u \in 0..(MaxItems + 2) |-> 0]
    /\ pc = "idle"
    /\ resolved_user_id = "u1"
    /\ album_idx = 0
    /\ seen_albums = {}
    /\ last_timestamp = NoTs
    /\ item_idx = 0
    /\ image_bytes = NoBytes
    /\ description = ""
    /\ embedding = <<>>
    /\ upserts = 0
    /\ run_log = <<>>

NextImage ==
    \/ \E payload \in ImagePayloads, user_id \in Tenants :
          calls < MaxImages /\ AddImageData(payload, user_id)
    \/ \E image_rowid \in 1..(MaxImages + 1), thumb \in {0, 1} : GetImage(image_rowid, thumb)

\* images are written to the in-memory FirestoreDB and fetched over /image
SpecImage == InitImage /\ [][NextImage]_vars

\* ----------------------------------- the SQLite-backed server: /image
\* Database.get_image_paths (lines 158-165): the paths of the row, or the
\* FileNotFoundError it raises when no row has the rowid
get_image_paths(image_rowid) ==
    IF image_rowid \notin DOMAIN images
    THEN [raised |-> "FileNotFoundError", file_path |-> NoPath, thumb_path |-> NoPath]
    ELSE [raised |-> "", file_path |-> images[image_rowid].file_path,
          thumb_path |-> images[image_rowid].thumb_path]

\* GET /image/{image_rowid}?thumb= (backend server.py lines 84-92); an
\* exception that leaves the handler is answered 500
GetImageFile(image_rowid, thumb) ==
    /\ store_backend = "sqlite"
    /\ LET paths == get_image_paths(image_rowid)
           target == IF thumb = 1 /\ paths.thumb_path # NoPath THEN paths.thumb_path
                     ELSE paths.file_path
       IN last_response' =
             [op |-> "get_image", image_rowid |-> image_rowid, thumb |-> thumb,
              status |-> IF paths.raised # "" THEN 500
                         ELSE IF target = NoPath \/ ~exists(target, disk) THEN 404
                         ELSE 200,
              content |-> IF paths.raised = "" /\ target # NoPath /\ exists(target, disk)
                          THEN read(target, disk) ELSE NoBytes,
              media_type |-> "image/jpeg"]
    /\ UNCHANGED <<store_backend, _local_images, images, vectors, calls, last_call, prev_call,
                   last_search, ingest_vars, server_vars, client_vars>>

\* the rows upsert_image is called with for the pictures: with a media id or
\* none, the image file on this host or written elsewhere, a thumbnail path
\* or none
FileRows ==
    {[google_media_id |-> g, description |-> "a photo",
      file_path |-> path_of([files |-> f], "images", c),
      thumb_path |-> path_of([files |-> t], "thumbs", c)]
        : g \in {0, 1}, c \in Pictures, f \in {"here", "elsewhere"}, t \in {"here", "none"}}

InitBackend ==
    /\ EmptyStore("sqlite")
    /\ NoServer
    /\ NoClient
    /\ album_entries = <<>>
    /\ saved = {}
    /\ disk = ImageFiles
    /\ download_calls = [u \in 0..(MaxItems + 2) |-> 0]
    /\ pc = "idle"
    /\ resolved_user_id = "u1"
    /\ album_idx = 0
    /\ seen_albums = {}
    /\ last_timestamp = NoTs
    /\ item_idx = 0
    /\ image_bytes = NoBytes
    /\ description = ""
    /\ embedding = <<>>
    /\ upserts = 0
    /\ run_log = <<>>

NextBackend ==
    \/ \E payload \in FileRows : calls < MaxImages /\ UpsertImage(payload)
    \/ \E image_rowid \in 1..(MaxImages + 1), thumb \in {0, 1} :
          GetImageFile(image_rowid, thumb)

\* rows are written to the SQLite Database and fetched over /image
SpecBackend == InitBackend /\ [][NextBackend]_vars

\* ------------------------------- ingest_once with the store it builds
\* the album "Trip" of the source: up to MaxItems images
TripAlbums ==
    {[id |-> 1, title |-> "Trip", items |-> s] : s \in UNION {ItemLists(n) : n \in 0..MaxItems}}

\* ingest_once is called without db: it builds FirestoreDB (lines 87-91); the
\* configuration names the album by its title
InitDefault ==
    /\ EmptyStore("memory")
    /\ NoServer
    /\ NoClient
    /\ album_entries \in {<<a>> : a \in TripAlbums}
    /\ saved = {}
    /\ disk = {}
    /\ download_calls = [u \in 0..(MaxItems + 2) |-> 0]
    /\ pc = "idle"
    /\ resolved_user_id = "u1"
    /\ album_idx = 0
    /\ seen_albums = {}
    /\ last_timestamp = NoTs
    /\ item_idx = 0
    /\ image_bytes = NoBytes
    /\ description = ""
    /\ embedding = <<>>
    /\ upserts = 0
    /\ run_log = <<>>

\* the source and the oracle answer every call; the store is searched with
\* the vector of the oracle's description
NextDefault ==
    \/ \E u \in RunTenants : IngestStart(u)
    \/ NextAlbum
    \/ NextItem
    \/ DownloadImage
    \/ DescribeImage
    \/ EmbedText
    \/ UpsertRaises
    \/ \E top_k \in 0..MaxK : SearchVectors(embed_text("a photo"), top_k, "u1")

SpecDefault == InitDefault /\ [][NextDefault]_vars
\* ------------------------------------------------ the servers: /search
\* a client is constructed whatever the environment holds
GeminiClientAnyKey(api_key) == "GeminiClient"

\* GeminiClient.__init__ (llm.py lines 8-14): raises RuntimeError when the
\* environment variable is unset or empty, else genai.configure is called
\* with the key (line 12; see Search)
GeminiClient(api_key) == IF api_key = "" THEN "RuntimeError" ELSE "GeminiClient"

\* create_app.get_gemini (functions server.py lines 115-127, backend
\* server.py lines 42-54): the cached client, else a new one, None when the
\* construction raises
get_gemini ==
    IF gemini_client # "None" THEN gemini_client
    ELSE IF GeminiClient(environ) = "RuntimeError" THEN "None"
    ELSE GeminiClient(environ)

\* db.search of the server's store (functions/db.py lines 78-81; src/db.py
\* lines 140-156, over table vectors, which no call of the servers writes)
search(query_vector, top_k, user_id) ==
    IF store_backend = "memory" THEN search_vectors(query_vector, top_k, user_id) ELSE <<>>

\* the responses of the handler
MissingQuery == "Missing query"
KeyNotSet == "Gemini API key not set. Update it in Settings."

\* GET /search?q=&top_k= for an authenticated user (functions server.py lines
\* 133-161, backend server.py lines 60-82); oracle_ok: the embedding call
\* of the client returns rather than raises
Search(q, top_k, user_id, oracle_ok) ==
    /\ store_backend \in {"memory", "sqlite"}
    /\ LET client == get_gemini
       IN IF q = ""
          THEN /\ last_response' =
                     [op |-> "search", q |-> q, status |-> 400, detail |-> MissingQuery,
                      rows |-> <<>>, consulted |-> FALSE, searched |-> FALSE]
               /\ UNCHANGED <<gemini_client, genai_key>>
          ELSE /\ gemini_client' = client
               /\ genai_key' = IF gemini_client = "None" /\ GeminiClient(environ) # "RuntimeError"
                               THEN environ
                               ELSE genai_key
               /\ last_response' =
                     IF client = "None"
                     THEN [op |-> "search", q |-> q, status |-> 400, detail |-> KeyNotSet,
                           rows |-> <<>>, consulted |-> TRUE, searched |-> FALSE]
                     ELSE IF ~oracle_ok
                     THEN [op |-> "search", q |-> q, status |-> 500,
                           detail |-> "Internal Server Error",
                           rows |-> <<>>, consulted |-> TRUE, searched |-> FALSE]
                     ELSE [op |-> "search", q |-> q, status |-> 200, detail |-> "",
                           rows |-> search(embed_text(q), top_k, user_id),
                           consulted |-> TRUE, searched |-> TRUE]
    /\ UNCHANGED <<store_backend, _local_images, images, vectors, calls, last_call, prev_call,
                   last_search, environ, _local_users, cfg, config_file, ingest_vars,
                   client_vars>>

\* str.strip of the keys posted
strip(api_key) == IF api_key = " " THEN "" ELSE api_key

\* FirestoreDB.get_user_settings, save_user_settings, get_user_info and
\* save_user_info, in memory (functions/db.py lines 162, 171-172, 228, 216-217)
get_user_settings(uid) == _local_users[uid].settings

save_user_settings(users, uid, settings) == [users EXCEPT ![uid].settings = settings]

get_user_info(uid) == _local_users[uid].user_info

save_user_info(users, uid, user_info) == [users EXCEPT ![uid].user_info = user_info]

\* the handlers save the e-mail of the token, when it carries one (functions
\* server.py lines 291-293, 260-262)
save_token_email(users, user) ==
    IF user.email # "" THEN save_user_info(users, user.uid, [email |-> user.email])
    ELSE users

\* POST /settings/gemini-key (functions server.py lines 269-295: the key is
\* stripped, an empty one refused, the cached client dropped, the key saved
\* in the settings of the user; backend server.py lines 158-162: the key is
\* stored as posted)
UpdateGeminiKey(api_key, user) ==
    /\ store_backend \in {"memory", "sqlite"}
    /\ IF store_backend = "memory"
       THEN IF strip(api_key) = ""
            THEN /\ last_response' = [op |-> "update_gemini_key", status |-> 400]
                 /\ UNCHANGED <<environ, gemini_client, _local_users>>
            ELSE /\ environ' = strip(api_key)
                 /\ gemini_client' = "None"
                 /\ LET existing == [get_user_settings(user.uid)
                                       EXCEPT !.gemini_api_key = strip(api_key),
                                              !.gemini_key_set = "true"]
                    IN _local_users' =
                          save_token_email(
                             save_user_settings(_local_users, user.uid, existing), user)
                 /\ last_response' = [op |-> "update_gemini_key", status |-> 200]
       ELSE /\ environ' = api_key
            /\ last_response' = [op |-> "update_gemini_key", status |-> 200]
            /\ UNCHANGED <<gemini_client, _local_users>>
    /\ UNCHANGED <<store_backend, _local_images, images, vectors, calls, last_call, prev_call,
                   last_search, genai_key, cfg, config_file, ingest_vars, client_vars>>

\* the e-mail of the stored user info comes first
email_of_stored(user, stored_user) ==
    IF stored_user.email # "" THEN stored_user.email ELSE user.email

\* get_settings: user.get("email") or stored_user.get("email", "") (line 194)
email_of(user, stored_user) ==
    IF user.email # "" THEN user.email ELSE stored_user.email

\* GET /settings of the functions server (server.py lines 170-203)
GetSettings(user) ==
    /\ store_backend = "memory"
    /\ LET user_settings == get_user_settings(user.uid)
           gemini_key_set == user_settings.gemini_api_key # ""
           flag == IF gemini_key_set THEN "true" ELSE "false"
           flagged == IF user_settings.gemini_key_set # flag
                      THEN save_user_settings(_local_users, user.uid,
                                              [user_settings EXCEPT !.gemini_key_set = flag])
                      ELSE _local_users
           stored_user == get_user_info(user.uid)
           email == email_of(user, stored_user)
       IN /\ _local_users' =
                IF email # "" /\ stored_user.email # email
                THEN save_user_info(flagged, user.uid, [email |-> email])
                ELSE flagged
          /\ last_response' =
                [op |-> "get_settings", user |-> user, email |-> email,
                 album_url |-> strip(user_settings.album_url),
                 album_title |-> strip(user_settings.album_title),
                 gemini_key_set |-> gemini_key_set]
    /\ UNCHANGED <<store_backend, _local_images, images, vectors, calls, last_call, prev_call,
                   last_search, environ, gemini_client, genai_key, cfg, config_file,
                   ingest_vars, client_vars>>

\* the authenticated users of the requests: the decoded token, with an
\* e-mail or without
Users ==
    {[uid |-> "u1", email |-> ""], [uid |-> "u1", email |-> "a@x"],
     [uid |-> "u1", email |-> "b@x"], [uid |-> "u2", email |-> ""]}

\* the queries of the requests, the keys posted and the keys the process is
\* started with
SearchTexts == {"", "cat"}
ApiKeys == {"", " ", "key"}

\* either server is started, with the key variable set or unset
InitServer ==
    /\ NoIngest
    /\ \E kind \in {"memory", "sqlite"} : EmptyStore(kind)
    /\ environ \in {"", "key"}
    /\ gemini_client = "None"
    /\ genai_key = ""
    /\ _local_users = [uid \in Tenants |-> NoUser]
    /\ cfg = NoAlbumSource
    /\ config_file = [exists |-> FALSE, google_photos |-> NoAlbumSource]
    /\ NoClient

NextServer ==
    \/ \E payload \in CorpusPayloads, user_id \in Tenants :
          store_backend = "memory" /\ calls < MaxImages /\ AddImageData(payload, user_id)
    \/ \E q \in SearchTexts, top_k \in {1, MaxK}, user_id \in Tenants, oracle_ok \in BOOLEAN :
          Search(q, top_k, user_id, oracle_ok)
    \/ \E api_key \in ApiKeys, user \in Users : UpdateGeminiKey(api_key, user)
    \/ \E user \in Users : GetSettings(user)

\* a server answers /search while keys are posted and images added
SpecServer == InitServer /\ [][NextServer]_vars

\* the keys posted to a server that may hold a client of an earlier key
OracleKeys == {"", " ", "key", "key2"}

InitOracle ==
    /\ NoIngest
    /\ \E kind \in {"memory", "sqlite"} : EmptyStore(kind)
    /\ environ \in {"", "key"}
    /\ gemini_client = "None"
    /\ genai_key = ""
    /\ _local_users = [uid \in Tenants |-> NoUser]
    /\ cfg = NoAlbumSource
    /\ config_file = [exists |-> FALSE, google_photos |-> NoAlbumSource]
    /\ NoClient

NextOracle ==
    \/ \E q \in SearchTexts, oracle_ok \in BOOLEAN : Search(q, MaxK, "u1", oracle_ok)
    \/ \E api_key \in OracleKeys, user \in Users : UpdateGeminiKey(api_key, user)

\* /search and /settings/gemini-key of a server, over the keys of a process
SpecOracle == InitOracle /\ [][NextOracle]_vars

\* ------------------------------------ the functions server: /settings/album-url
\* A text posted is the sequence of its pieces: a blank, a slash, a letter, or
\* at its start the scheme and host of a URL.
MaxText == 3        \* pieces of a posted text after its blanks and URL start

Url == "https://h"

RECURSIVE lstrip(_, _)
\* str.lstrip of one character
lstrip(chars, ch) ==
    IF chars # <<>> /\ Head(chars) = ch THEN lstrip(Tail(chars), ch) ELSE chars

RECURSIVE rstrip(_, _)
\* str.rstrip of one character
rstrip(chars, ch) ==
    IF chars # <<>> /\ chars[Len(chars)] = ch
    THEN rstrip(SubSeq(chars, 1, Len(chars) - 1), ch)
    ELSE chars

\* str.strip() of blanks, str.strip("/")
strip_chars(chars, ch) == rstrip(lstrip(chars, ch), ch)

RECURSIVE from_slash(_)
\* the text from its first slash on
from_slash(chars) ==
    IF chars = <<>> \/ Head(chars) = "/" THEN chars ELSE from_slash(Tail(chars))

\* urllib.parse.urlparse of a stripped text: whether it has a scheme and a
\* netloc, and its path (what follows the host, from the first slash)
urlparse(raw) ==
    IF raw # <<>> /\ Head(raw) = Url
    THEN [scheme_and_netloc |-> TRUE, path |-> from_slash(Tail(raw))]
    ELSE [scheme_and_netloc |-> FALSE, path |-> raw]

\* server._normalize_album_path (lines 57-70)
_normalize_album_path(value) ==
    LET raw == strip_chars(value, " ")
    IN IF raw = <<>> THEN <<>>
       ELSE IF urlparse(raw).scheme_and_netloc THEN strip_chars(urlparse(raw).path, "/")
       ELSE strip_chars(raw, "/")

\* "/" in raw: the URL start holds slashes
has_slash(raw) == \E i \in DOMAIN raw : raw[i] \in {"/", Url}

\* a text is taken as a path and as a title at once
_split_album_source_both(value) ==
    LET raw == strip_chars(value, " ")
    IN IF raw = <<>> THEN <<<<>>, <<>>>> ELSE <<_normalize_album_path(raw), raw>>

\* server._split_album_source (lines 73-91): (album_path, album_title)
_split_album_source(value) ==
    LET raw == strip_chars(value, " ")
        looks_like_url == urlparse(raw).scheme_and_netloc
        looks_like_path == has_slash(raw) /\ ~\E i \in DOMAIN raw : raw[i] = " "
    IN IF raw = <<>> THEN <<<<>>, <<>>>>
       ELSE IF looks_like_url \/ looks_like_path THEN <<_normalize_album_path(raw), <<>>>>
       ELSE <<<<>>, raw>>

RECURSIVE text(_)
\* the string of a text
text(chars) == IF chars = <<>> THEN "" ELSE Head(chars) \o text(Tail(chars))

\* POST /settings/album-url (functions server.py lines 223-264): the file at
\* cfg_path is rewritten (226-242), then cfg in memory (243-245), then the
\* settings of the user (247-258) and the e-mail of the token (260-262)
UpdateAlbumUrl(value, user) ==
    /\ store_backend = "memory"
    /\ LET album_path == text(_split_album_source(value)[1])
           album_title == text(_split_album_source(value)[2])
           existing == get_user_settings(user.uid)
       IN /\ config_file' =
                [exists |-> TRUE,
                 google_photos |->
                    IF album_path # ""
                    THEN [album_url |-> album_path, album_paths |-> <<album_path>>,
                          albums |-> <<>>]
                    ELSE [album_url |-> "", album_paths |-> <<>>,
                          albums |-> IF album_title # "" THEN <<album_title>> ELSE <<>>]]
          /\ cfg' = [album_url |-> album_path,
                     album_paths |-> IF album_path # "" THEN <<album_path>> ELSE <<>>,
                     albums |-> IF album_title # "" THEN <<album_title>> ELSE <<>>]
          /\ _local_users' =
                save_token_email(
                   save_user_settings(
                      _local_users, user.uid,
                      IF album_path # ""
                      THEN [existing EXCEPT !.album_url = album_path, !.album_title = ""]
                      ELSE IF album_title # ""
                      THEN [existing EXCEPT !.album_title = album_title, !.album_url = ""]
                      ELSE [existing EXCEPT !.album_url = "", !.album_title = ""]),
                   user)
          /\ last_response' = [op |-> "update_album_url", status |-> 200,
                               album_url |-> album_path, album_title |-> album_title]
    /\ UNCHANGED <<store_backend, _local_images, images, vectors, calls, last_call, prev_call,
                   last_search, environ, gemini_client, genai_key, ingest_vars, client_vars>>

RECURSIVE Texts(_)
\* the texts of n pieces
Texts(n) ==
    IF n = 0 THEN {<<>>}
    ELSE {Append(chars, ch) : chars \in Texts(n - 1), ch \in {" ", "/", "a"}}

\* the texts posted: blanks, the start of a URL or none, up to MaxText pieces
AlbumSources ==
    {blanks \o start \o chars :
        blanks \in {<<>>, <<" ">>}, start \in {<<>>, <<Url>>},
        chars \in UNION {Texts(n) : n \in 0..MaxText}}

\* google_photos of the configuration loaded: no album, or paths and titles
LoadedSources ==
    {NoAlbumSource, [album_url |-> "x", album_paths |-> <<"x">>, albums |-> <<"t">>]}

\* the functions server is started over a configuration; the file at cfg_path
\* is that configuration or does not exist; no user has settings
InitAlbum ==
    /\ NoIngest
    /\ EmptyStore("memory")
    /\ environ = ""
    /\ gemini_client = "None"
    /\ genai_key = ""
    /\ _local_users = [uid \in Tenants |-> NoUser]
    /\ cfg \in LoadedSources
    /\ config_file \in {[exists |-> FALSE, google_photos |-> NoAlbumSource],
                        [exists |-> TRUE, google_photos |-> cfg]}
    /\ NoClient

NextAlbumUrl == \E value \in AlbumSources, user \in Users : UpdateAlbumUrl(value, user)

\* the album source of the functions server is set over and over
SpecAlbum == InitAlbum /\ [][NextAlbumUrl]_vars

\* ------------------------------------------- GooglePhotosClient (functions)
\* A page token is the index of the page it stands for, 0 for None, "" or a
\* missing key; a request without a token is answered with page 1. A service
\* object is the number of the _build_service call that returned it.

MaxPages == 3        \* pages of the album's media listing
MaxPageItems == 2    \* media items on one page
MaxAlbumPages == 2   \* pages of the album listing, of one album at most each
MaxBuilds == 2       \* _build_service invocations in one behaviour

\* the media listings of the source: page k holds up to MaxPageItems items
\* and the token of a later page, or none
MediaPages ==
    {[k \in 1..MaxPages |->
        [mediaItems |-> [j \in 1..count[k] |-> [id |-> (k - 1) * MaxPageItems + j]],
         nextPageToken |-> token[k]]]
       : count \in [1..MaxPages -> 0..MaxPageItems],
         token \in {t \in [1..MaxPages -> 0..MaxPages] :
                       \A k \in 1..MaxPages : t[k] = 0 \/ t[k] > k}}

\* the album listings of the source
AlbumPages ==
    {[k \in 1..MaxAlbumPages |->
        [albums |-> [j \in 1..count[k] |-> [id |-> k, title |-> IF k = 1 THEN "Trip" ELSE "TRIP"]],
         nextPageToken |-> token[k]]]
       : count \in [1..MaxAlbumPages -> 0..1],
         token \in {t \in [1..MaxAlbumPages -> 0..MaxAlbumPages] :
                       \A k \in 1..MaxAlbumPages : t[k] = 0 \/ t[k] > k}}

\* service.albums().list(pageToken=...).execute() and
\* service.mediaItems().search(body=...).execute() (lines 264, 284): the page
\* the source answers with
execute(pages, pageToken) == IF pageToken = 0 THEN pages[1] ELSE pages[pageToken]

\* _build_service is invoked (lines 164-203): it returns a new service, or
\* raises when no credentials are obtained (lines 184, 192, 254)
_build_service(ok) ==
    /\ build_calls < MaxBuilds
    /\ build_calls' = build_calls + 1
    /\ service' = IF ok THEN build_calls + 1 ELSE service

\* the service is built at every call, cached or not
_ensure_service_rebuilds(ok) == _build_service(ok)

\* _ensure_service (lines 74-77)
_ensure_service(ok) ==
    IF service = 0 THEN _build_service(ok) ELSE UNCHANGED <<service, build_calls>>

\* the loop of list_albums (lines 263-269), entered with albums and next_token
RECURSIVE list_albums_loop(_, _)
list_albums_loop(albums, next_token) ==
    LET res == execute(album_pages, next_token)
        extended == albums \o res.albums
    IN IF res.nextPageToken = 0 THEN extended
       ELSE list_albums_loop(extended, res.nextPageToken)

\* list_albums (lines 259-269)
list_albums == list_albums_loop(<<>>, 0)

\* str.lower of the titles
lower(title) == IF title \in {"Trip", "TRIP"} THEN "trip" ELSE title

\* get_album_by_title returns None
NoAlbum == [id |-> 0, title |-> ""]

\* get_album_by_title (lines 271-275), over the albums listed
get_album_by_title(albums, title) ==
    LET matches == {i \in 1..Len(albums) : lower(albums[i].title) = lower(title)}
    IN IF matches = {} THEN NoAlbum
       ELSE albums[CHOOSE i \in matches : \A j \in matches : i <= j]

\* client.list_albums() is called
ListAlbums(ok) ==
    /\ gen_pc \notin {"none", "request"}
    /\ _ensure_service(ok)
    /\ last_call' = IF service' = 0
                    THEN [op |-> "list_albums", service |-> 0, raised |-> TRUE,
                          returned |-> <<>>]
                    ELSE [op |-> "list_albums", service |-> service', raised |-> FALSE,
                          returned |-> list_albums]
    /\ prev_call' = last_call
    /\ UNCHANGED <<store_backend, _local_images, images, vectors, calls, last_search, last_response,
                   album_pages, media_pages, gen_pc, next_page_token, result, item_pos,
                   yielded, requests, ingest_vars, server_vars, oauth_vars>>

\* client.get_album_by_title(title) is called
GetAlbumByTitle(title, ok) ==
    /\ gen_pc \notin {"none", "request"}
    /\ _ensure_service(ok)
    /\ last_call' = IF service' = 0
                    THEN [op |-> "get_album_by_title", service |-> 0, raised |-> TRUE,
                          returned |-> NoAlbum]
                    ELSE [op |-> "get_album_by_title", service |-> service',
                          raised |-> FALSE,
                          returned |-> get_album_by_title(list_albums, title)]
    /\ prev_call' = last_call
    /\ UNCHANGED <<store_backend, _local_images, images, vectors, calls, last_search, last_response,
                   album_pages, media_pages, gen_pc, next_page_token, result, item_pos,
                   yielded, requests, ingest_vars, server_vars, oauth_vars>>

\* the generator has not run yet, or holds no page
NoPage == [mediaItems |-> <<>>, nextPageToken |-> 0]

\* client.iter_media_items_in_album(album_id) is called: a generator is
\* made, none of its body runs (line 277)
IterMediaItems ==
    /\ gen_pc \notin {"none", "request"}
    /\ gen_pc' = "start"
    /\ next_page_token' = 0
    /\ result' = NoPage
    /\ item_pos' = 0
    /\ yielded' = <<>>
    /\ requests' = <<>>
    /\ UNCHANGED <<store_vars, album_pages, media_pages, service, build_calls, ingest_vars,
                   server_vars, oauth_vars>>

\* the loop ends after one page, whatever token the page carries
EndOfPageStops(res) ==
    /\ next_page_token' = res.nextPageToken
    /\ gen_pc' = "done"

\* the generator after the last item of a page (lines 288-290): it takes the
\* page's token and returns when there is none
EndOfPage(res) ==
    /\ next_page_token' = res.nextPageToken
    /\ gen_pc' = IF res.nextPageToken = 0 THEN "done" ELSE "request"

\* next() on the generator: its first lines (278-279), or the for loop
\* after a yield (lines 286-290)
ResumeGenerator(ok) ==
    /\ gen_pc \in {"start", "yield"}
    /\ IF gen_pc = "start"
       THEN /\ _ensure_service(ok)
            /\ gen_pc' = IF service' = 0 THEN "raised" ELSE "request"
            /\ UNCHANGED <<next_page_token, result, item_pos, yielded>>
       ELSE /\ IF item_pos < Len(result.mediaItems)
               THEN /\ yielded' = Append(yielded, result.mediaItems[item_pos + 1])
                    /\ item_pos' = item_pos + 1
                    /\ UNCHANGED <<gen_pc, next_page_token>>
               ELSE /\ EndOfPage(result)
                    /\ UNCHANGED <<item_pos, yielded>>
            /\ UNCHANGED <<service, build_calls, result>>
    /\ UNCHANGED <<store_vars, album_pages, media_pages, requests, ingest_vars,
                   server_vars, oauth_vars>>

\* the generator, within next(), requests a page (lines 281-285) and yields
\* its first item or, on an empty page, goes on to the end of the loop
RequestPage ==
    /\ gen_pc = "request"
    /\ LET res == execute(media_pages, next_page_token)
       IN /\ result' = res
          /\ requests' = Append(requests, [pageToken |-> next_page_token,
                                           service |-> service,
                                           consumed |-> Len(yielded)])
          /\ IF res.mediaItems # <<>>
             THEN /\ yielded' = Append(yielded, res.mediaItems[1])
                  /\ item_pos' = 1
                  /\ gen_pc' = "yield"
                  /\ UNCHANGED next_page_token
             ELSE /\ EndOfPage(res)
                  /\ item_pos' = 0
                  /\ UNCHANGED yielded
    /\ UNCHANGED <<store_vars, album_pages, media_pages, service, build_calls, ingest_vars,
                   server_vars, oauth_vars>>

\* GooglePhotosClient.__init__ (lines 59-62) over a source
InitClient ==
    /\ NoIngest
    /\ EmptyStore("memory")
    /\ NoServer
    /\ album_pages \in AlbumPages
    /\ media_pages \in MediaPages
    /\ service = 0
    /\ build_calls = 0
    /\ gen_pc = "new"
    /\ next_page_token = 0
    /\ result = NoPage
    /\ item_pos = 0
    /\ yielded = <<>>
    /\ requests = <<>>
    /\ NoOAuth

NextClient ==
    \/ \E ok \in BOOLEAN : ListAlbums(ok)
    \/ \E title \in {"trip", "none"}, ok \in BOOLEAN : GetAlbumByTitle(title, ok)
    \/ IterMediaItems
    \/ \E ok \in BOOLEAN : ResumeGenerator(ok)
    \/ RequestPage

\* one GooglePhotosClient is called, and its generator consumed
SpecClient == InitClient /\ [][NextClient]_vars

\* ------------------------------------- GooglePhotosClient: authorization
MaxPairs == 6       \* PKCE pairs one client generates in one behaviour

\* the S256 challenge of a verifier (lines 82-84): the hash of it, which no
\* other verifier has
S256(verifier) == [sha256 |-> verifier]

\* GooglePhotosClient._generate_pkce_pair (lines 79-85): 32 fresh random
\* bytes each time, the k-th pair's as k
_generate_pkce_pair(k) == <<k, S256(k)>>

\* the code the authorization server answers a visit of an authorization URL
\* with: it is bound to the code_challenge of that URL
code_of(code_challenge) == [code_challenge |-> code_challenge]

\* GooglePhotosClient.get_auth_url (lines 87-115), of a client configuration
\* with a "web" or "installed" section
GetAuthUrl ==
    /\ pkce_pairs < MaxPairs
    /\ LET pair == _generate_pkce_pair(pkce_pairs + 1)
       IN /\ code_verifier' = pair[1]
          /\ auth_urls' = auth_urls \cup {pair[2]}
    /\ pkce_pairs' = pkce_pairs + 1
    /\ UNCHANGED <<fetch_token, album_pages, media_pages, service, build_calls, gen_pc,
                   next_page_token, result, item_pos, yielded, requests, ingest_vars,
                   store_vars, server_vars>>

\* GooglePhotosClient.get_credentials_from_code (lines 129-162), up to
\* flow.fetch_token: a pair is generated (138-139) and its verifier is the
\* one passed with the code (147)
GetCredentialsFromCode(code) ==
    /\ pkce_pairs < MaxPairs
    /\ LET pair == _generate_pkce_pair(pkce_pairs + 1)
       IN /\ code_verifier' = pair[1]
          /\ fetch_token' = [op |-> "fetch_token", code |-> code, code_verifier |-> pair[1],
                             by |-> "get_credentials_from_code"]
    /\ pkce_pairs' = pkce_pairs + 1
    /\ UNCHANGED <<auth_urls, album_pages, media_pages, service, build_calls, gen_pc,
                   next_page_token, result, item_pos, yielded, requests, ingest_vars,
                   store_vars, server_vars>>

\* GooglePhotosClient._authenticate_with_pkce (lines 205-257): the URL is made
\* of the pair's challenge (213-219); the callback brings the code of that
\* URL, or none and RuntimeError is raised (252-254)
AuthenticateWithPkce(ok) ==
    /\ pkce_pairs < MaxPairs
    /\ LET pair == _generate_pkce_pair(pkce_pairs + 1)
       IN /\ code_verifier' = pair[1]
          /\ auth_urls' = auth_urls \cup {pair[2]}
          /\ fetch_token' = IF ok
                            THEN [op |-> "fetch_token", code |-> code_of(pair[2]),
                                  code_verifier |-> pair[1],
                                  by |-> "_authenticate_with_pkce"]
                            ELSE fetch_token
    /\ pkce_pairs' = pkce_pairs + 1
    /\ UNCHANGED <<album_pages, media_pages, service, build_calls, gen_pc, next_page_token,
                   result, item_pos, yielded, requests, ingest_vars, store_vars, server_vars>>

InitOAuth ==
    /\ NoIngest
    /\ EmptyStore("memory")
    /\ NoServer
    /\ NoClient

\* the codes get_credentials_from_code is called with are those of the
\* authorization URLs the client handed out
NextOAuth ==
    \/ GetAuthUrl
    \/ \E code_challenge \in auth_urls : GetCredentialsFromCode(code_of(code_challenge))
    \/ \E ok \in BOOLEAN : AuthenticateWithPkce(ok)

\* one GooglePhotosClient authorizes
SpecOAuth == InitOAuth /\ [][NextOAuth]_vars

\* ----------------------------- ingest_once for tenants of one deployment
\* media item k as a camera uploaded it: under the file name IMG_0001.jpg,
\* which item.get("filename") reports (line 169)
CameraItem(k, t) == [WellFormed(k, t) EXCEPT !.filename = 1]

RECURSIVE CameraItemLists(_)
\* the item lists of length n: position k holds media item k, under the file
\* name of the camera or under none
CameraItemLists(n) ==
    IF n = 0 THEN {<<>>}
    ELSE {Append(s, i) : s \in CameraItemLists(n - 1),
                         i \in {WellFormed(n, n), CameraItem(n, n)}}

\* the album of the tenant of the run
TenantAlbums ==
    {[id |-> 1, title |-> "A", items |-> s]
        : s \in UNION {CameraItemLists(n) : n \in 0..MaxItems}}

\* What the run of the other tenant left, with the same images_dir and
\* thumbs_dir (lines 79-82): the record of an image of its own library that
\* its camera named IMG_0001.jpg too, and the two files of it.
OtherItem == CameraItem(MaxItems + 1, 1)

OtherRecord ==
    [user_id |-> "u2", media_id |-> OtherItem.id,
     data |-> image_data([title |-> "B"], OtherItem, image_at(OtherItem.baseUrl),
                         "a photo", <<1, 0>>)]

OtherFiles ==
    write_file(write_file({}, "images", filename(OtherItem), image_at(OtherItem.baseUrl)),
               "thumbs", filename(OtherItem), create_thumbnail(image_at(OtherItem.baseUrl)))

InitTenants ==
    /\ EmptyStore("ledger")
    /\ NoServer
    /\ NoClient
    /\ album_entries \in {<<a>> : a \in TenantAlbums}
    /\ saved = {OtherRecord}
    /\ disk = OtherFiles
    /\ download_calls = [u \in 0..(MaxItems + 2) |-> 0]
    /\ pc = "idle"
    /\ resolved_user_id = "u1"
    /\ album_idx = 0
    /\ seen_albums = {}
    /\ last_timestamp = NoTs
    /\ item_idx = 0
    /\ image_bytes = NoBytes
    /\ description = ""
    /\ embedding = <<>>
    /\ upserts = 0
    /\ run_log = <<>>

\* ingest_once runs for a tenant after another tenant's run
SpecTenants == InitTenants /\ [][Next]_vars

\* ------------------------------------------------------------ claims
\* the run is past the filters of the current item: download_image_bytes,
\* the oracle or upsert_media_item is about to be called for it
Working == pc \in {"download", "describe", "embed", "upsert"}

\* the item the item loop took last
PrevItem == Album.items[item_idx]

Stored(user_id, media_id) ==
    \E r \in saved : r.user_id = user_id /\ r.media_id = media_id

CompletedBefore(user_id) ==
    \E i \in DOMAIN run_log : run_log[i].user = user_id /\ run_log[i].outcome = "completed"

\* C1 (dedup skip): ingest_once calls download_image_bytes, describe_image,
\* embed_text and upsert_media_item only for an item whose media id the store
\* does not hold for the tenant of the run.
C1_DedupSkip ==
    Working => ~Stored(resolved_user_id, Item.id)

\* C1 witness: the item loop has passed over an item the store holds for the
\* tenant, in a run that follows a completed one, and the item was downloaded
\* once in all.
C1_Witness ==
    /\ pc = "item" /\ item_idx > 0
    /\ CompletedBefore(resolved_user_id)
    /\ Stored(resolved_user_id, PrevItem.id)
    /\ download_calls[PrevItem.baseUrl] = 1

\* C2 (watermark skip): ingest_once neither downloads nor upserts an item
\* of an album when the store holds a record of the tenant, of that album
\* title, whose timestamp is not earlier than the item's.
C2_WatermarkSkip ==
    Working =>
        ~\E r \in saved : /\ r.user_id = resolved_user_id
                           /\ r.data.album_title = Album.title
                           /\ Item.creationTime <= r.data.timestamp

\* C2 witness: the item loop has passed over an image that the store does not
\* hold and that was never downloaded, because a record of its album is as
\* late or later.
C2_Witness ==
    /\ pc = "item" /\ item_idx > 0
    /\ PrevItem.mimeType = "image/jpeg" /\ PrevItem.id # 0 /\ PrevItem.baseUrl # 0
    /\ ~Stored(resolved_user_id, PrevItem.id)
    /\ download_calls[PrevItem.baseUrl] = 0
    /\ \E r \in saved : /\ r.user_id = resolved_user_id
                         /\ r.data.album_title = Album.title
                         /\ PrevItem.creationTime <= r.data.timestamp

\* C3 (exactly-once storage): the store holds at most one record per tenant
\* and media id, and a run of a tenant that follows a completed run of that
\* tenant never gets past the filters: it downloads nothing and upserts nothing.
C3_ExactlyOnce ==
    /\ \A r1, r2 \in saved :
          (r1.user_id = r2.user_id /\ r1.media_id = r2.media_id) => r1 = r2
    /\ (pc # "idle" /\ CompletedBefore(resolved_user_id)) => ~Working

\* C3 witness: two runs of the tenant have completed and the store holds
\* records of the tenant.
C3_Witness ==
    /\ Len(run_log) = 2
    /\ \A i \in DOMAIN run_log : run_log[i].outcome = "completed"
    /\ Cardinality({r \in saved : r.user_id = "u1"}) >= 2

\* C4 (resume after an interrupted run): when a run of a tenant over a
\* 3-item album ended early after its 2nd upsert and a later run of that
\* tenant completed, the store holds a record of each of the 3 items for the
\* tenant.
C4_ResumeCompletes ==
    \A i, j \in DOMAIN run_log :
        (/\ i < j
         /\ run_log[i].user = run_log[j].user
         /\ run_log[i].outcome # "completed" /\ run_log[i].upserts = 2
         /\ run_log[j].outcome = "completed"
         /\ Len(album_entries[1].items) = 3)
        => \A k \in DOMAIN album_entries[1].items :
               Stored(run_log[j].user, album_entries[1].items[k].id)

\* C5 (per-item failures are not fatal): no run of ingest_once ends because
\* download_image_bytes or the oracle failed for an item.
C5_ItemFailureNotFatal ==
    \A i \in DOMAIN run_log : run_log[i].outcome \notin {"download_error", "oracle_error"}

\* C6 (single watermark snapshot): while ingest_once iterates one album, the
\* value the stale test compares with (last_timestamp) stays the one read
\* before the iteration.
C6_SingleSnapshot ==
    [][(pc \in {"item", "download", "describe", "embed", "upsert"} /\ pc' \notin {"idle", "album"})
        => last_timestamp' = last_timestamp]_vars
\* ------------------------------------------------- claims: the stores
\* the owner of the record add_image_data(payload, user_id) writes
owner_of(call) ==
    IF call.image_data.user_id # "" THEN call.image_data.user_id ELSE call.user_id

\* the documents filed under a key, the rows of a media id
Filed(key) == {i \in DOMAIN _local_images : _local_images[i].key = key}
RowsOf(media_id) == {i \in DOMAIN images : images[i].google_media_id = media_id}

\* the last two writes were add_image_data with one explicit image_id, one
\* payload and one tenant
AddedTwice ==
    /\ prev_call.op = "add_image_data"
    /\ last_call.op = "add_image_data"
    /\ last_call.image_data.image_id # 0
    /\ prev_call.image_data = last_call.image_data
    /\ prev_call.user_id = last_call.user_id

\* the last two writes were upsert_image with one non-null google_media_id
\* and one payload
UpsertedTwice ==
    /\ prev_call.op = "upsert_image"
    /\ last_call.op = "upsert_image"
    /\ last_call.image_data.google_media_id # 0
    /\ prev_call.image_data = last_call.image_data

\* C7: after the store's upsert was called twice with the same key and the
\* same payload there is exactly one record of the key, its fields are those
\* of the payload, and the two calls returned the same identifier
C7_IdempotentUpsert ==
    /\ AddedTwice =>
          /\ Cardinality(Filed(last_call.image_data.image_id)) = 1
          /\ \A i \in Filed(last_call.image_data.image_id) :
                /\ _local_images[i].data.embedding = last_call.image_data.embedding
                /\ _local_images[i].data.description = last_call.image_data.description
                /\ _local_images[i].data.album_title = last_call.image_data.album_title
                /\ _local_images[i].data.user_id = owner_of(last_call)
                /\ _local_images[i].data.image_rowid =
                      IF last_call.image_data.image_rowid # 0
                      THEN last_call.image_data.image_rowid
                      ELSE last_call.image_data.image_id
          /\ last_call.returned = last_call.image_data.image_id
          /\ prev_call.returned = last_call.returned
    /\ UpsertedTwice =>
          /\ Cardinality(RowsOf(last_call.image_data.google_media_id)) = 1
          /\ \A i \in RowsOf(last_call.image_data.google_media_id) :
                /\ images[i] = last_call.image_data
                /\ last_call.returned = i
          /\ prev_call.returned = last_call.returned

\* the same add_image_data twice, over a record of the key that the first of
\* the two calls changed
C7_Witness ==
    /\ AddedTwice
    /\ calls = 3
    /\ last_call.returned = 1
    /\ last_call.user_id = "u1"
    /\ last_call.image_data.description = "a dog"
    /\ Len(_local_images) = 1

\* C8: a write for one tenant leaves every record of another tenant as it was
C8_TenantPartition ==
    [][(calls' = calls + 1 /\ last_call'.op = "add_image_data" /\ owner_of(last_call') # "")
         => \A i \in DOMAIN _local_images :
               _local_images[i].data.user_id \notin {"", owner_of(last_call')}
                  => _local_images'[i] = _local_images[i]]_vars

\* C9, as stated: a search for a tenant returns records of that tenant only
C9_TenantScopedSearch ==
    (last_search.op = "search_vectors" /\ last_search.user_id # "")
       => \A j \in DOMAIN last_search.returned :
             last_search.returned[j].user_id = last_search.user_id

\* C9, amended: a search for a tenant returns records of that tenant and
\* records of no owner, never a record of another tenant
C9_NoForeignRecord ==
    (last_search.op = "search_vectors" /\ last_search.user_id # "")
       => \A j \in DOMAIN last_search.returned :
             last_search.returned[j].user_id \in {"", last_search.user_id}

\* tenant u1 searches a store that holds a record of u1, one of u2 and one of
\* no owner, each at a finite distance of the query
C9_Witness ==
    /\ last_search.op = "search_vectors"
    /\ last_search.user_id = "u1"
    /\ {_local_images[i].data.user_id : i \in DOMAIN _local_images} = {"", "u1", "u2"}
    /\ \A i \in DOMAIN _local_images :
          ~_cosine_distance(last_search.query_vector, _local_images[i].data.embedding).inf
    /\ {last_search.returned[j].user_id : j \in DOMAIN last_search.returned} = {"", "u1"}
\* the documents a search has to rank: those the caller is shown, with an
\* embedding at a finite distance of the query
Searchable(query_vector, user_id) ==
    {i \in DOMAIN _local_images :
        /\ user_id = "" \/ _local_images[i].data.user_id \in {"", user_id}
        /\ _local_images[i].data.embedding # <<>>
        /\ ~_cosine_distance(query_vector, _local_images[i].data.embedding).inf}

\* the distance of document i to the query of the last search
DistanceOf(i) == _cosine_distance(last_search.query_vector, _local_images[i].data.embedding)

\* two finite distances are the same number
SameDistance(d1, d2) == d1.num * d2.den = d2.num * d1.den

\* the last search ranked documents no two of which are equally far
DistinctDistances ==
    /\ last_search.op = "search_vectors"
    /\ \A i, j \in Searchable(last_search.query_vector, last_search.user_id) :
          i # j => ~SameDistance(DistanceOf(i), DistanceOf(j))

\* C10: over N searchable records of pairwise distinct distances,
\* search_vectors(q, k) returns min(k, N) records in ascending order of
\* distance, and every record it leaves out is farther than each it returns
C10_TopK ==
    DistinctDistances =>
       LET corpus == Searchable(last_search.query_vector, last_search.user_id)
           returned == last_search.returned
       IN /\ Len(returned) = Min(last_search.top_k, Cardinality(corpus))
          /\ \A j \in 1..(Len(returned) - 1) :
                Closer(returned[j].distance, returned[j + 1].distance)
          /\ \A j \in DOMAIN returned :
                \E i \in corpus :
                   /\ returned[j].image_rowid = _local_images[i].data.image_rowid
                   /\ SameDistance(returned[j].distance, DistanceOf(i))
          /\ \A i \in corpus :
                \/ \E j \in DOMAIN returned :
                      returned[j].image_rowid = _local_images[i].data.image_rowid
                \/ \A j \in DOMAIN returned : Closer(returned[j].distance, DistanceOf(i))

\* three records of three distances to a query of their length, the nearest
\* written last, and a search for the two nearest
C10_Witness ==
    /\ DistinctDistances
    /\ Cardinality(Searchable(last_search.query_vector, last_search.user_id)) = 3
    /\ \A i \in DOMAIN _local_images : Len(_local_images[i].data.embedding) = 2
    /\ last_search.top_k = 2
    /\ Len(last_search.returned) = 2
    /\ last_search.returned[1].image_rowid = 3
    /\ last_search.returned[2].image_rowid = 1
\* a vector without a direction: None, [] or all zeros
AllZero(vector) == \A n \in DOMAIN vector : vector[n] = 0

\* document i is among the records the last search returned
Returned(i) ==
    \E j \in DOMAIN last_search.returned :
       last_search.returned[j].image_rowid = _local_images[i].data.image_rowid

\* C11: search_vectors returns no record whose embedding is missing, empty or
\* all-zero, and returns nothing for a query that is empty or all-zero
C11_ZeroVector ==
    last_search.op = "search_vectors" =>
       /\ \A i \in DOMAIN _local_images :
             Returned(i) => ~AllZero(_local_images[i].data.embedding)
       /\ AllZero(last_search.query_vector) => last_search.returned = <<>>

\* a search over a record without an embedding, one of an all-zero embedding
\* and one with a direction returns the third alone
C11_Witness ==
    /\ last_search.op = "search_vectors"
    /\ last_search.top_k >= 3
    /\ {_local_images[i].data.embedding : i \in DOMAIN _local_images}
          = {<<>>, <<0, 0>>, <<0, 1>>}
    /\ Len(last_search.returned) = 1

\* C12: search_vectors returns no record whose embedding is of another length
\* than the query vector
C12_MismatchedLength ==
    last_search.op = "search_vectors" =>
       \A i \in DOMAIN _local_images :
          Returned(i) =>
             Len(_local_images[i].data.embedding) = Len(last_search.query_vector)
\* ------------------------------------- claims: ingest_once, end to end
\* C13: after one run of ingest_once with the store it builds, over an album
\* "Trip" of one image, the run has completed and a search with the vector of
\* the description returns one result, at distance 0, of album_title "Trip"
C13_EndToEnd ==
    [][(/\ last_search' # last_search
        /\ last_search'.op = "search_vectors"
        /\ last_search'.top_k >= 1
        /\ pc = "idle"
        /\ Len(run_log) = 1
        /\ Len(album_entries[1].items) = 1)
         => /\ run_log[1].outcome = "completed"
            /\ Len(last_search'.returned) = 1
            /\ last_search'.returned[1].distance.num = last_search'.returned[1].distance.den
            /\ last_search'.returned[1].album_title = "Trip"]_vars
\* ------------------------------------------- claims: the album loop
\* the items of an album are being iterated
Iterating == pc \in {"item", "download", "describe", "embed", "upsert"}

\* C14: the album whose items are iterated has an id, and no earlier entry
\* of the run's album list carries that id: an album id is iterated at its
\* first entry only, an entry without an id never
C14_AlbumDedup ==
    Iterating =>
       /\ Album.id # 0
       /\ \A j \in 1..album_idx : album_entries[j].id # Album.id

\* the fourth entry is iterated, after an entry without an id and a second
\* entry of the first album
C14_Witness ==
    /\ Iterating
    /\ album_idx = 3
    /\ album_entries[2].id = 0
    /\ album_entries[3].id = album_entries[1].id
    /\ Len(album_entries[1].items) > 0
\* ------------------------------------ claims: the empty description
\* a record of the ledger as a document of FirestoreDB
document_of(r) ==
    [key |-> r.media_id,
     data |-> [user_id |-> r.user_id, image_rowid |-> r.media_id,
               embedding |-> r.data.embedding, description |-> r.data.description,
               album_title |-> r.data.album_title]]

\* C15: embed_text is called only with a non-empty description; an item of an
\* empty description goes to the upsert with an empty embedding and is stored
\* with it; the loop of search_vectors returns that record for no query
C15_EmptyDescription ==
    /\ pc = "embed" => description # ""
    /\ (pc = "upsert" /\ description = "") => embedding = <<>>
    /\ \A r \in saved :
          r.data.description = ""
             => /\ r.data.embedding = <<>>
                /\ \A query_vector \in Queries :
                      results_of(<<document_of(r)>>, query_vector) = <<>>

\* the record of an image the oracle had no words for is stored
C15_Witness ==
    \E r \in saved :
       /\ r.user_id = resolved_user_id
       /\ r.data.description = ""
       /\ describe_image(r.data.image_bytes) = ""
\* ------------------------------------------ claims: the image route
\* the bytes a document holds of a variant, in the record under either key
\* or in the file at its path
Held(doc, thumb) ==
    LET blobs == IF thumb = 1 THEN {doc.thumb_bytes, doc.thumbnail_bytes}
                 ELSE {doc.image_bytes}
        path == IF thumb = 1 THEN doc.thumb_path ELSE doc.file_path
    IN {blob.bytes : blob \in {b \in blobs : b.kind # "none"}}
       \cup (IF path # NoPath /\ exists(path, disk) THEN {read(path, disk)} ELSE {})

\* C16: /image answers 404 for an id without a record; for a record that
\* holds bytes of the variant asked for it answers 200 with bytes of that
\* record and variant, under the record's mime type
C16_ImageRoute ==
    last_response.op = "get_image" =>
       IF Filed(last_response.image_rowid) = {} THEN last_response.status = 404
       ELSE \A i \in Filed(last_response.image_rowid) :
               Held(_local_images[i].data, last_response.thumb) # {}
                  => /\ last_response.status = 200
                     /\ last_response.content
                           \in Held(_local_images[i].data, last_response.thumb)
                     /\ last_response.media_type =
                           IF _local_images[i].data.mime_type = "" THEN "image/jpeg"
                           ELSE _local_images[i].data.mime_type
\* C17: the SQLite-backed /image answers 404 for a rowid that no row of
\* table images has
C17_UnknownRowid ==
    (last_response.op = "get_image" /\ last_response.image_rowid \notin DOMAIN images)
       => last_response.status = 404

\* ------------------------------------------ claims: the search route
\* C18: a /search request with a query, made while no client is held and
\* the key variable is unset or empty, is answered 400 with the "key not
\* set" detail, carries no result list, and db.search is not invoked; a
\* request with an empty query is answered 400 "Missing query" and
\* get_gemini is not called: no client is constructed
C18_Unconfigured ==
    [][(last_response'.op = "search")
          => /\ (last_response'.q # "" /\ gemini_client = "None" /\ environ = "")
                   => /\ last_response'.status = 400
                      /\ last_response'.detail = KeyNotSet
                      /\ last_response'.rows = <<>>
                      /\ ~last_response'.searched
                      /\ gemini_client' = "None"
             /\ (last_response'.q = "")
                   => /\ last_response'.status = 400
                      /\ last_response'.detail = MissingQuery
                      /\ ~last_response'.consulted
                      /\ ~last_response'.searched
                      /\ gemini_client' = gemini_client]_vars

\* a query was refused for the missing key after images were stored
C18_Witness ==
    /\ last_response.op = "search"
    /\ last_response.q # ""
    /\ last_response.status = 400
    /\ last_response.detail = KeyNotSet
    /\ environ = ""
    /\ gemini_client = "None"
    /\ Len(_local_images) > 0

\* ------------------------------------------- claims: the photos client
\* the sequences of a sequence, one after the other
RECURSIVE Flatten(_)
Flatten(seqs) == IF seqs = <<>> THEN <<>> ELSE Head(seqs) \o Flatten(Tail(seqs))

\* the page the source answered the generator's k-th request with
Received(k) == execute(media_pages, requests[k].pageToken)

\* the items of the first n pages the generator received
ReceivedItems(n) == Flatten([k \in 1..n |-> Received(k).mediaItems])

\* the pages of a listing that its tokens lead to from page 1
RECURSIVE Linked(_, _, _)
Linked(pages, found, n) ==
    IF n = 0 THEN found
    ELSE Linked(pages, found \cup ({pages[k].nextPageToken : k \in found} \ {0}), n - 1)

\* the entries under a key of the pages linked, in the order of the listing
Listing(pages, key) ==
    LET linked == Linked(pages, {1}, Len(pages))
    IN Flatten([k \in 1..Len(pages) |-> IF k \in linked THEN pages[k][key] ELSE <<>>])

\* C19: the generator of iter_media_items_in_album hands over the items of
\* the pages it received, each once and in order; its first request carries
\* no token and each later one the token of the page before, made only when
\* every item of the pages before was handed over; it has returned only
\* after a page without a token, with every item of the listing handed
\* over, and it goes on to request only after a page with a token;
\* list_albums returns the albums of all the linked pages in order
C19_LazyPagination ==
    /\ gen_pc \notin {"none", "new"}
          => LET n == Len(requests)
             IN /\ \A k \in 1..n :
                      /\ requests[k].pageToken =
                            IF k = 1 THEN 0 ELSE Received(k - 1).nextPageToken
                      /\ k > 1 => Received(k - 1).nextPageToken # 0
                      /\ requests[k].consumed = Len(ReceivedItems(k - 1))
                /\ Len(yielded) <= Len(ReceivedItems(n))
                /\ yielded = SubSeq(ReceivedItems(n), 1, Len(yielded))
                /\ n > 0 => Len(yielded) >= Len(ReceivedItems(n - 1))
                /\ gen_pc = "yield"
                      => /\ n > 0
                         /\ item_pos > 0
                         /\ Len(yielded) = Len(ReceivedItems(n - 1)) + item_pos
                /\ (gen_pc = "request" /\ n > 0)
                      => /\ Received(n).nextPageToken # 0
                         /\ yielded = ReceivedItems(n)
                /\ gen_pc = "done"
                      => /\ n > 0
                         /\ Received(n).nextPageToken = 0
                         /\ yielded = ReceivedItems(n)
                         /\ yielded = Listing(media_pages, "mediaItems")
    /\ (last_call.op = "list_albums" /\ ~last_call.raised)
          => last_call.returned = Listing(album_pages, "albums")

\* a generator went through three pages, one of them empty, and returned;
\* list_albums returned the albums of two pages
C19_Witness ==
    /\ gen_pc = "done"
    /\ Len(requests) = 3
    /\ \E k \in 1..3 : Received(k).mediaItems = <<>>
    /\ Len(yielded) >= 3
    /\ last_call.op = "list_albums"
    /\ ~last_call.raised
    /\ Len(last_call.returned) = 2

\* C20 as stated: _build_service is invoked at most once on a client
C20_BuiltAtMostOnce == build_calls <= 1

\* C20: once a build has succeeded, no call invokes _build_service again,
\* the client keeps the service, and every call and every request of the
\* generator is made on it
C20_CachedService ==
    [][service # 0
          => /\ service' = service
             /\ build_calls' = build_calls
             /\ (last_call' # last_call => last_call'.service = service)
             /\ (requests' # requests /\ requests' # <<>>)
                   => requests'[Len(requests')].service = service]_vars

\* a build failed, the next succeeded, and two calls and a request of the
\* generator were made on the service it returned
C20_Witness ==
    /\ build_calls = 2
    /\ service = 2
    /\ last_call.op = "list_albums"
    /\ last_call.service = 2
    /\ prev_call.op = "get_album_by_title"
    /\ prev_call.service = 2
    /\ requests # <<>>
    /\ requests[Len(requests)].service = 2

\* -------------------------------------------- claims: the settings
\* C21: GET /settings reports gemini_key_set exactly when the settings
\* stored for the user hold a key, and as e-mail the one of the token when
\* the token carries one, else the one stored for the user
C21_SettingsReport ==
    last_response.op = "get_settings"
       => LET user == last_response.user
          IN /\ last_response.gemini_key_set
                   <=> _local_users[user.uid].settings.gemini_api_key # ""
             /\ user.email # "" => last_response.email = user.email
             /\ user.email = ""
                   => last_response.email = _local_users[user.uid].user_info.email

\* after a key was posted with a token that carries an e-mail, the user
\* asks with a token that carries none and is told the key is set and the
\* stored e-mail; the other user has no key
C21_Witness ==
    /\ last_response.op = "get_settings"
    /\ last_response.user = [uid |-> "u1", email |-> ""]
    /\ last_response.gemini_key_set
    /\ last_response.email = "a@x"
    /\ _local_users["u2"].settings.gemini_api_key = ""

\* ------------------------------------------ claims: tenants and files
\* the file at a path holds the bytes
Holds(path, bytes) ==
    \E f \in disk : f.dir = path.dir /\ f.name = path.name /\ f.data = bytes

\* C22: whatever the run of tenant u1 does, the persisted state of tenant u2
\* is what the run of u2 alone produced: its record, and in the files the
\* record points to the bytes u2 downloaded
C22_TenantsIndependent ==
    /\ {r \in saved : r.user_id = "u2"} = {OtherRecord}
    /\ Holds(OtherRecord.data.file_path, OtherRecord.data.image_bytes)
    /\ Holds(OtherRecord.data.thumb_path, OtherRecord.data.thumbnail_bytes)

\* C26: for every stored record, the file at its file_path holds the bytes
\* of the record, whose SHA-256 is the record's sha256, and the file at its
\* thumb_path holds the thumbnail of the record
C26_FileIntegrity ==
    \A r \in saved :
       /\ \E f \in disk : /\ f.dir = r.data.file_path.dir
                          /\ f.name = r.data.file_path.name
                          /\ sha256(f.data) = r.data.sha256
                          /\ f.data = r.data.image_bytes
       /\ Holds(r.data.thumb_path, r.data.thumbnail_bytes)

\* ------------------------------------------- claims: ties of a search
\* the place in the store's iteration order of the document of a record
PositionOf(r) ==
    CHOOSE i \in DOMAIN _local_images : _local_images[i].data.image_rowid = r.image_rowid

\* C23: of two records search_vectors returns at the same distance, the one
\* the store iterates first comes first; a record left out by top_k at the
\* distance of a returned one is iterated after it
C23_StableTieBreak ==
    last_search.op = "search_vectors" =>
       LET corpus == Searchable(last_search.query_vector, last_search.user_id)
           returned == last_search.returned
       IN /\ \A j, k \in DOMAIN returned :
                (j < k /\ SameDistance(returned[j].distance, returned[k].distance))
                   => PositionOf(returned[j]) < PositionOf(returned[k])
          /\ \A i \in corpus, j \in DOMAIN returned :
                (~Returned(i) /\ SameDistance(DistanceOf(i), returned[j].distance))
                   => PositionOf(returned[j]) < i

\* three records at the same distance of the query, and a search for two:
\* the first two written are returned, in that order
C23_Witness ==
    /\ last_search.op = "search_vectors"
    /\ Cardinality(Searchable(last_search.query_vector, last_search.user_id)) = 3
    /\ \A i, j \in Searchable(last_search.query_vector, last_search.user_id) :
          SameDistance(DistanceOf(i), DistanceOf(j))
    /\ last_search.top_k = 2
    /\ Len(last_search.returned) = 2
    /\ last_search.returned[1].image_rowid = 1
    /\ last_search.returned[2].image_rowid = 2

\* the vector that is written with a description
VectorOf(words) == (CHOOSE c \in Contents : c[1] = words)[2]

\* C24: a record of the SQLite store that has a vector has the vector of its
\* description, in the tables as they are committed at any point and in every
\* row a search returns: a re-upserted media id never shows the new
\* description with the old vector
C24_AtomicReplacement ==
    /\ \A j \in DOMAIN vectors :
          vectors[j].embedding = VectorOf(images[vectors[j].image_rowid].description)
    /\ last_search.op = "search" =>
          \A j \in DOMAIN last_search.returned :
             last_search.returned[j].distance
                = vec_distance(VectorOf(last_search.returned[j].description),
                           last_search.query_embedding)

\* C27: a call of add_image_data that names no image_id and no image_rowid
\* files its record under an id that no record had before the call
C27_AutoIdIsNew ==
    [][(/\ calls' = calls + 1
        /\ last_call'.op = "add_image_data"
        /\ last_call'.image_data.image_id = 0
        /\ last_call'.image_data.image_rowid = 0)
       => \A i \in DOMAIN _local_images : _local_images[i].key # last_call'.returned]_vars

\* C28: the code_verifier of every fetch_token call is the verifier whose
\* S256 challenge was in the authorization URL that produced the code
C28_PkceConsistent ==
    fetch_token.op = "fetch_token" =>
        S256(fetch_token.code_verifier) = fetch_token.code.code_challenge

\* the album entries a run iterates: those with an id no earlier entry has
Processed(i) ==
    /\ album_entries[i].id # 0
    /\ \A j \in 1..(i - 1) : album_entries[j].id # album_entries[i].id

\* C25: when the first run of a tenant that the store holds no record of has
\* returned, no download, oracle call or upsert having failed, the store holds
\* a record of every item of every album iterated that is an image with an id
\* and a baseUrl, whatever the creation times are
C25_CleanRunComplete ==
    (/\ pc = "idle"
     /\ Len(run_log) = 1
     /\ run_log[1].outcome = "completed")
    => \A i \in DOMAIN album_entries :
          Processed(i) =>
             \A k \in DOMAIN album_entries[i].items :
                LET item == album_entries[i].items[k]
                IN (item.mimeType = "image/jpeg" /\ item.id # 0 /\ item.baseUrl # 0)
                      => Stored(run_log[1].user, item.id)

\* C29: when /search has asked for the oracle client while the environment
\* holds a key, a client is held and the key it was configured with is the
\* key of the environment: no failed construction is kept, and a key posted
\* is the key of the client of the next request
C29_ClientOfCurrentKey ==
    (/\ last_response.op = "search"
     /\ last_response.consulted
     /\ environ # "")
    => /\ gemini_client # "None"
       /\ genai_key = environ

====
